---- MODULE Spec2Model ----
(***************************************************************************)
(* A state-machine model of updater/install.cpp: the native operations of  *)
(* the OTA updater (staged reboot protocol, metadata application, format). *)
(* Strings are TLA+ strings; a C char array is a sequence of cells, each a *)
(* one-character string or NUL.                                            *)
(***************************************************************************)
EXTENDS Integers, Sequences, FiniteSets, TLC

VARIABLES
  pc,          \* position of the running handler ("idle" between calls)
  call,        \* the call being evaluated: name and evaluated arguments
  ret,         \* the Value* the last handler returned, with State's cause code
  disk,        \* the bootloader message persisted on the misc partition
  boot,        \* the handler's local `bootloader_message boot`
  powerctl,    \* value of the ANDROID_RB_PROPERTY system property
  quiescent,   \* value of the ro.boot.quiescent property
  oplog,       \* steps the running boot-record handler has performed
  before,      \* the persisted record when the current call was first invoked
  interrupted, \* where the last invocation lost power ("" when it did not)
  retried,     \* where the invocation this one re-invokes lost power ("" if none)
  lastSet,     \* token of the most recent set_stage that succeeded, if any
  fs,          \* the files the metadata calls work on, with their attributes
  fs0,         \* the files as they were before the call
  denied,      \* the (path, attribute) changes the OS refuses
  syslog,      \* syscalls the last set_metadata call attempted, in order
  bad,         \* SetMetadataFn's failure counter when it returned
  ui,          \* lines the last call sent to the recovery UI
  max_warnings,\* ParsePermArgs' remaining unknown-key warnings
  stdout,      \* the unknown-key warnings ParsePermArgs printed, in order
  last_parsed, \* the perm spec ParsePermArgs gave the last metadata call
  execlog,     \* child processes the last format call ran, in order
  is_retry,    \* state->is_retry: this run of the updater is a retry
  mounts,      \* the mount table of the OS: mount point -> [device, type, flags, options]
  volumes      \* the mounts library's table as of its last scan

vars == <<pc, call, ret, disk, boot, powerctl, quiescent, oplog, before,
          interrupted, retried, lastSet, fs, fs0, denied, syslog, bad, ui,
          max_warnings, stdout, last_parsed, execlog, is_retry, mounts, volumes>>

stageVars ==
  <<disk, boot, powerctl, quiescent, oplog, before, interrupted, retried, lastSet>>
metaVars == <<fs, fs0, denied, syslog, bad, ui, max_warnings, stdout, last_parsed>>
formatVars == <<execlog>>
sysVars == <<is_retry, mounts, volumes>>

----------------------------------------------------------------------------
(* Values returned to the script (edify Value*, State::cause_code).        *)

NUL == ""

kNoCause == "kNoCause"
kArgsParsingFailure == "kArgsParsingFailure"
kRebootFailure == "kRebootFailure"
kSetMetadataFailure == "kSetMetadataFailure"

\* StringValue(s): a VAL_STRING value, no error recorded.
StringValue(s) == [type |-> "VAL_STRING", data |-> s, cause |-> kNoCause]

\* ErrorAbort(state, cause, ...): records the cause and returns nullptr.
\* Variant: the abort carries no cause.
ErrorAbortUnnamed(cause) == [type |-> "nullptr", data |-> "", cause |-> kNoCause]

ErrorAbort(cause) == [type |-> "nullptr", data |-> "", cause |-> cause]

\* A bare `return nullptr`.
NullValue == [type |-> "nullptr", data |-> "", cause |-> kNoCause]

NoRet == [type |-> "none", data |-> "", cause |-> kNoCause]
NoCall == [fn |-> "none", args |-> <<>>]

Min(a, b) == IF a < b THEN a ELSE b

Range(seq) == {seq[i] : i \in 1..Len(seq)}

----------------------------------------------------------------------------
(* The boot-control record (struct bootloader_message).                    *)

\* sizeof(boot.stage): "it should not exceed 31 bytes" plus the terminator.
StageSize == 32
\* sizeof(boot.command)
CommandSize == 32

\* Longest stage token the script passes.
MaxTokenLen == 33

Alphabet == "abcdefghijklmnopqrstuvwxyzABCDEFGHIJKLMNOPQRSTUVWXYZ"

\* A char array of n cells holding the C string s.
CharArray(s, n) == [i \in 1..n |-> IF i <= Len(s) THEN SubSeq(s, i, i) ELSE NUL]

\* The C string held in a char array: the cells before the first NUL.
RECURSIVE CStr(_)
CStr(arr) ==
  IF arr = <<>> \/ Head(arr) = NUL THEN "" ELSE Head(arr) \o CStr(Tail(arr))

\* Variants of strlcpy: appending like strlcat, and refusing an over-long source.
Strlcat(dst, src, size) ==
  LET old == Len(CStr(dst))
      n == Min(Len(src), size - 1 - old)
  IN  [i \in 1..Len(dst) |->
         IF i <= old THEN dst[i]
         ELSE IF i <= old + n THEN SubSeq(src, i - old, i - old)
         ELSE IF i = old + n + 1 THEN NUL ELSE dst[i]]

StrlcpyNoTruncate(dst, src, size) ==
  IF Len(src) > size - 1 THEN dst
  ELSE [i \in 1..Len(dst) |->
          IF i <= Len(src) THEN SubSeq(src, i, i)
          ELSE IF i = Len(src) + 1 THEN NUL ELSE dst[i]]

\* strlcpy(dst, src, size): copies at most size-1 characters and terminates;
\* the cells after the terminator keep what they held.
Strlcpy(dst, src, size) ==
  LET n == Min(Len(src), size - 1)
  IN  [i \in 1..Len(dst) |->
         IF i <= n THEN SubSeq(src, i, i)
         ELSE IF i = n + 1 THEN NUL ELSE dst[i]]

\* memset(field, 0, sizeof(field))
Memset0(field) == [i \in 1..Len(field) |-> NUL]

MiscPath == "/dev/block/misc"

Tokens ==
  {"", "S2", "3/3", SubSeq(Alphabet, 1, StageSize - 1), SubSeq(Alphabet, 1, StageSize),
   SubSeq(Alphabet, 1, MaxTokenLen)}

Targets == {"", "recovery"}

InitRecords ==
  { [command |-> CharArray(c, CommandSize),
     status |-> "",
     recovery |-> "recovery\n--update_package=/cache/ota.zip\n",
     stage |-> CharArray(s, StageSize)] :
      c \in {"", "boot-recovery"}, s \in {"", "1/3"} }

NoBoot ==
  [command |-> <<>>, status |-> "", recovery |-> "", stage |-> <<>>]

----------------------------------------------------------------------------
(* Calls: every handler starts from "idle" with its evaluated arguments.   *)

\* The bookkeeping shared by every call entry: the call, and whether it
\* re-invokes the call that lost power.
Begin(c) ==
  /\ call' = c
  /\ retried' = IF interrupted # "" /\ c = call THEN interrupted ELSE ""
  /\ before' = IF interrupted # "" /\ c = call THEN before ELSE disk
  /\ interrupted' = ""

\* A handler returns v to the script.
Return(v) ==
  /\ pc' = "idle"
  /\ ret' = v
  /\ boot' = NoBoot

SetStageArgs ==
  {<<MiscPath, t>> : t \in Tokens} \cup {<<MiscPath>>, <<MiscPath, "S2", "S3">>}

\* Argument count and ReadArgs.
SetStageFn(argv, evalOk) ==
  /\ pc = "idle"
  /\ Begin([fn |-> "set_stage", args |-> argv])
  /\ IF Len(argv) # 2 \/ ~evalOk
       THEN /\ pc' = "idle"
            /\ ret' = ErrorAbort(kArgsParsingFailure)
       ELSE /\ pc' = "ss_read"
            /\ ret' = NoRet
  /\ oplog' = <<>>
  /\ UNCHANGED <<disk, boot, powerctl, quiescent, lastSet, metaVars, formatVars, sysVars>>

\* Variant: a failed read escalates to an abort.
SetStageReadAborting(ok) ==
  /\ pc = "ss_read"
  /\ IF ok
       THEN /\ boot' = disk
            /\ pc' = "ss_copy"
            /\ oplog' = Append(oplog, "read_ok")
            /\ ret' = ret
       ELSE /\ Return(ErrorAbort(kRebootFailure))
            /\ oplog' = Append(oplog, "read_failed")
  /\ UNCHANGED <<call, disk, powerctl, quiescent, before, interrupted, retried,
                 lastSet, metaVars, formatVars, sysVars>>

\* read_bootloader_message_from(&boot, filename, &err)
SetStageRead(ok) ==
  /\ pc = "ss_read"
  /\ IF ok
       THEN /\ boot' = disk
            /\ pc' = "ss_copy"
            /\ oplog' = Append(oplog, "read_ok")
            /\ ret' = ret
       ELSE /\ Return(StringValue(""))
            /\ oplog' = Append(oplog, "read_failed")
  /\ UNCHANGED <<call, disk, powerctl, quiescent, before, interrupted, retried,
                 lastSet, metaVars, formatVars, sysVars>>

\* strlcpy(boot.stage, stagestr.c_str(), sizeof(boot.stage))
SetStageCopy ==
  /\ pc = "ss_copy"
  /\ boot' = [boot EXCEPT !.stage = Strlcpy(boot.stage, call.args[2], StageSize)]
  /\ pc' = "ss_write"
  /\ oplog' = Append(oplog, "copy")
  /\ UNCHANGED <<call, ret, disk, powerctl, quiescent, before, interrupted, retried,
                 lastSet, metaVars, formatVars, sysVars>>

\* write_bootloader_message_to(boot, filename, &err): the record is written
\* whole or not at all.
SetStageWrite(ok) ==
  /\ pc = "ss_write"
  /\ IF ok
       THEN /\ disk' = boot
            /\ pc' = "ss_return"
            /\ oplog' = Append(oplog, "write_ok")
            /\ lastSet' = [set |-> TRUE, tok |-> call.args[2]]
            /\ UNCHANGED <<ret, boot>>
       ELSE /\ Return(StringValue(""))
            /\ oplog' = Append(oplog, "write_failed")
            /\ UNCHANGED <<disk, lastSet>>
  /\ UNCHANGED <<call, powerctl, quiescent, before, interrupted, retried,
                 metaVars, formatVars, sysVars>>

\* return StringValue(filename)
SetStageReturn ==
  /\ pc = "ss_return"
  /\ Return(StringValue(call.args[1]))
  /\ oplog' = Append(oplog, "return")
  /\ UNCHANGED <<call, disk, powerctl, quiescent, before, interrupted, retried,
                 lastSet, metaVars, formatVars, sysVars>>

GetStageArgs == {<<MiscPath>>, <<>>}

\* GetStageFn: reads the record and returns boot.stage as a C string.
GetStageFn(argv, evalOk, ok) ==
  /\ pc = "idle"
  /\ Begin([fn |-> "get_stage", args |-> argv])
  /\ pc' = "idle"
  /\ boot' = NoBoot
  /\ IF Len(argv) # 1 \/ ~evalOk
       THEN /\ ret' = ErrorAbort(kArgsParsingFailure)
            /\ oplog' = <<>>
       ELSE IF ok
         THEN /\ ret' = StringValue(CStr(disk.stage))
              /\ oplog' = <<"read_ok">>
         ELSE /\ ret' = StringValue("")
              /\ oplog' = <<"read_failed">>
  /\ UNCHANGED <<disk, powerctl, quiescent, lastSet, metaVars, formatVars, sysVars>>

RebootNowArgs ==
  {<<MiscPath, t>> : t \in Targets} \cup {<<MiscPath>>}

\* Argument count and ReadArgs.
RebootNowFn(argv, evalOk) ==
  /\ pc = "idle"
  /\ Begin([fn |-> "reboot_now", args |-> argv])
  /\ IF Len(argv) # 2 \/ ~evalOk
       THEN /\ pc' = "idle"
            /\ ret' = ErrorAbort(kArgsParsingFailure)
       ELSE /\ pc' = "rb_read"
            /\ ret' = NoRet
  /\ oplog' = <<>>
  /\ UNCHANGED <<disk, boot, powerctl, quiescent, lastSet, metaVars, formatVars, sysVars>>

\* read_bootloader_message_from(&boot, filename, &err)
RebootNowRead(ok) ==
  /\ pc = "rb_read"
  /\ IF ok
       THEN /\ boot' = disk
            /\ pc' = "rb_clear"
            /\ oplog' = Append(oplog, "read_ok")
            /\ ret' = ret
       ELSE /\ Return(StringValue(""))
            /\ oplog' = Append(oplog, "read_failed")
  /\ UNCHANGED <<call, disk, powerctl, quiescent, before, interrupted, retried,
                 lastSet, metaVars, formatVars, sysVars>>

\* Variant: the whole message is zeroed, not only its command field.
RebootNowClearAll ==
  /\ pc = "rb_clear"
  /\ boot' = [boot EXCEPT !.command = Memset0(boot.command),
                          !.stage = Memset0(boot.stage)]
  /\ pc' = "rb_write"
  /\ oplog' = Append(oplog, "clear")
  /\ UNCHANGED <<call, ret, disk, powerctl, quiescent, before, interrupted, retried,
                 lastSet, metaVars, formatVars, sysVars>>

\* memset(boot.command, 0, sizeof(boot.command))
RebootNowClear ==
  /\ pc = "rb_clear"
  /\ boot' = [boot EXCEPT !.command = Memset0(boot.command)]
  /\ pc' = "rb_write"
  /\ oplog' = Append(oplog, "clear")
  /\ UNCHANGED <<call, ret, disk, powerctl, quiescent, before, interrupted, retried,
                 lastSet, metaVars, formatVars, sysVars>>

\* Variant: a failed write is logged but the handler goes on to reboot.
RebootNowWriteUnchecked(ok) ==
  /\ pc = "rb_write"
  /\ disk' = IF ok THEN boot ELSE disk
  /\ pc' = "rb_setprop"
  /\ oplog' = Append(oplog, IF ok THEN "write_ok" ELSE "write_failed")
  /\ UNCHANGED <<call, ret, boot, powerctl, quiescent, before, interrupted, retried,
                 lastSet, metaVars, formatVars, sysVars>>

\* write_bootloader_message_to(boot, filename, &err)
RebootNowWrite(ok) ==
  /\ pc = "rb_write"
  /\ IF ok
       THEN /\ disk' = boot
            /\ pc' = "rb_setprop"
            /\ oplog' = Append(oplog, "write_ok")
            /\ UNCHANGED <<ret, boot>>
       ELSE /\ Return(StringValue(""))
            /\ oplog' = Append(oplog, "write_failed")
            /\ UNCHANGED disk
  /\ UNCHANGED <<call, powerctl, quiescent, before, interrupted, retried,
                 lastSet, metaVars, formatVars, sysVars>>

\* "reboot," + property, with ",quiescent" when ro.boot.quiescent is set.
RebootCmd(property, q) ==
  "reboot," \o property \o (IF q THEN ",quiescent" ELSE "")

\* android::base::SetProperty(ANDROID_RB_PROPERTY, reboot_cmd); its result is
\* not looked at.
RebootNowSetProperty(ok) ==
  /\ pc = "rb_setprop"
  /\ powerctl' = IF ok THEN RebootCmd(call.args[2], quiescent) ELSE powerctl
  /\ pc' = "rb_sleep"
  /\ oplog' = Append(oplog, IF ok THEN "setprop" ELSE "setprop_failed")
  /\ UNCHANGED <<call, ret, disk, boot, quiescent, before, interrupted, retried,
                 lastSet, metaVars, formatVars, sysVars>>

\* sleep(5) ran out: return ErrorAbort(state, kRebootFailure, ...)
RebootNowAbort ==
  /\ pc = "rb_sleep"
  /\ Return(ErrorAbort(kRebootFailure))
  /\ oplog' = Append(oplog, "abort")
  /\ UNCHANGED <<call, disk, powerctl, quiescent, before, interrupted, retried,
                 lastSet, metaVars, formatVars, sysVars>>

\* init acts on the property while the handler sleeps: the device reboots and
\* the updater never returns.
DeviceReboots ==
  /\ pc = "rb_sleep"
  /\ powerctl # ""
  /\ pc' = "idle"
  /\ boot' = NoBoot
  /\ powerctl' = ""
  /\ oplog' = Append(oplog, "rebooted")
  /\ UNCHANGED <<call, ret, disk, quiescent, before, interrupted, retried,
                 lastSet, metaVars, formatVars, sysVars>>

BootRecordPcs ==
  {"ss_read", "ss_copy", "ss_write", "ss_return",
   "rb_read", "rb_clear", "rb_write", "rb_setprop", "rb_sleep"}

\* Power is lost inside a boot-record handler: memory is gone, the persisted
\* record stays, and the script runs again after the restart.
PowerLoss ==
  /\ pc \in BootRecordPcs
  /\ pc' = "idle"
  /\ interrupted' = pc
  /\ boot' = NoBoot
  /\ powerctl' = ""
  /\ UNCHANGED <<call, ret, disk, quiescent, oplog, before, retried, lastSet,
                 metaVars, formatVars, sysVars>>

NoFs == <<>>

\* An empty mount table.
NoMounts == <<>>

\* memset(&parsed, 0, sizeof(parsed))
ZeroParsed ==
  [has_uid |-> FALSE, uid |-> 0, has_gid |-> FALSE, gid |-> 0,
   has_mode |-> FALSE, mode |-> 0, has_fmode |-> FALSE, fmode |-> 0,
   has_dmode |-> FALSE, dmode |-> 0, has_selabel |-> FALSE, selabel |-> "",
   has_capabilities |-> FALSE, capabilities |-> 0]

\* static int max_warnings = 20
MaxWarnings == 20

InitStage ==
  /\ pc = "idle"
  /\ call = NoCall
  /\ ret = NoRet
  /\ disk \in InitRecords
  /\ boot = NoBoot
  /\ powerctl = ""
  /\ quiescent \in BOOLEAN
  /\ oplog = <<>>
  /\ before = disk
  /\ interrupted = ""
  /\ retried = ""
  /\ lastSet = [set |-> FALSE, tok |-> ""]
  /\ fs = NoFs
  /\ fs0 = NoFs
  /\ denied = {}
  /\ syslog = <<>>
  /\ bad = 0
  /\ ui = <<>>
  /\ max_warnings = MaxWarnings
  /\ stdout = <<>>
  /\ last_parsed = ZeroParsed
  /\ execlog = <<>>
  /\ is_retry = FALSE
  /\ mounts = NoMounts
  /\ volumes = NoMounts

NextStage ==
  \/ \E argv \in SetStageArgs, evalOk \in BOOLEAN : SetStageFn(argv, evalOk)
  \/ \E ok \in BOOLEAN : SetStageRead(ok)
  \/ SetStageCopy
  \/ \E ok \in BOOLEAN : SetStageWrite(ok)
  \/ SetStageReturn
  \/ \E argv \in GetStageArgs, evalOk \in BOOLEAN, ok \in BOOLEAN :
       GetStageFn(argv, evalOk, ok)
  \/ \E argv \in RebootNowArgs, evalOk \in BOOLEAN : RebootNowFn(argv, evalOk)
  \/ \E ok \in BOOLEAN : RebootNowRead(ok)
  \/ RebootNowClear
  \/ \E ok \in BOOLEAN : RebootNowWrite(ok)
  \/ \E ok \in BOOLEAN : RebootNowSetProperty(ok)
  \/ RebootNowAbort
  \/ DeviceReboots
  \/ PowerLoss

SpecStage == InitStage /\ [][NextStage]_vars

----------------------------------------------------------------------------
(* Number scanning: sscanf with %d and %i conversions.                     *)

HexDigits == "0123456789abcdef"
HexDigitsUpper == "0123456789ABCDEF"

CharAt(s, i) == IF i >= 1 /\ i <= Len(s) THEN SubSeq(s, i, i) ELSE NUL

\* The value of character c as a digit of the base, -1 when it is none.
DigitVal(c, base) ==
  LET hits == {i \in 1..base : CharAt(HexDigits, i) = c \/ CharAt(HexDigitsUpper, i) = c}
  IN  IF c = NUL \/ hits = {} THEN -1 ELSE (CHOOSE i \in hits : TRUE) - 1

\* The digits of s from position i on: [n |-> how many, val |-> their value].
RECURSIVE ScanDigits(_, _, _, _, _)
ScanDigits(s, i, base, n, val) ==
  IF DigitVal(CharAt(s, i), base) < 0
    THEN [n |-> n, val |-> val]
    ELSE ScanDigits(s, i + 1, base, n + 1, val * base + DigitVal(CharAt(s, i), base))

RECURSIVE SkipSpace(_, _)
SkipSpace(s, i) ==
  IF CharAt(s, i) \in {" ", "\t", "\n"} THEN SkipSpace(s, i + 1) ELSE i

\* sscanf(s, "%d", &v): white space, an optional sign, decimal digits.
ScanDecimal(s) ==
  LET i == SkipSpace(s, 1)
      neg == CharAt(s, i) = "-"
      j == IF CharAt(s, i) \in {"-", "+"} THEN i + 1 ELSE i
      d == ScanDigits(s, j, 10, 0, 0)
  IN  [ok |-> d.n > 0, val |-> IF neg THEN -d.val ELSE d.val]

\* sscanf(s, "%i", &v): as %d, with a 0x prefix for hexadecimal and a leading
\* 0 for octal.
ScanInteger(s) ==
  LET i == SkipSpace(s, 1)
      neg == CharAt(s, i) = "-"
      j == IF CharAt(s, i) \in {"-", "+"} THEN i + 1 ELSE i
      hex == /\ CharAt(s, j) = "0"
             /\ CharAt(s, j + 1) \in {"x", "X"}
             /\ DigitVal(CharAt(s, j + 2), 16) >= 0
      d == IF hex THEN ScanDigits(s, j + 2, 16, 0, 0)
           ELSE IF CharAt(s, j) = "0" THEN ScanDigits(s, j, 8, 0, 0)
           ELSE ScanDigits(s, j, 10, 0, 0)
  IN  [ok |-> d.n > 0, val |-> IF neg THEN -d.val ELSE d.val]

\* Conversion of a scanned value to uid_t, gid_t, mode_t or uint64_t. The values
\* scanned here are non-negative and below 2^31, which the conversion keeps.
ToUnsigned(v) == v

----------------------------------------------------------------------------
(* struct perm_parsed_args and ParsePermArgs.                              *)

KnownKeys == <<"selabel", "uid", "gid", "mode", "dmode", "fmode", "capabilities">>

\* Variant: every unknown key is warned about.
UnknownKeyAlways(st, key) ==
  [st EXCEPT !.out = Append(st.out, "ParsedPermArgs: unknown key " \o key)]

\* A key that is none of the known ones: a warning on stdout while
\* max_warnings is not zero.
UnknownKey(st, key) ==
  IF st.warn # 0
    THEN [st EXCEPT !.warn = st.warn - 1,
                    !.out = Append(st.out, "ParsedPermArgs: unknown key " \o key)]
  ELSE st

\* One key/value pair of the loop body: st is [parsed, ui, warn, out].
ParsePair(st, key, value) ==
  LET d == ScanDecimal(value)
      n == ScanInteger(value)
      invalid(what) ==
        [st EXCEPT !.ui = Append(st.ui, "ParsePermArgs: invalid " \o what)]
  IN  CASE key = "uid" ->
             IF d.ok THEN [st EXCEPT !.parsed.uid = ToUnsigned(d.val), !.parsed.has_uid = TRUE]
             ELSE invalid("UID")
        [] key = "gid" ->
             IF d.ok THEN [st EXCEPT !.parsed.gid = ToUnsigned(d.val), !.parsed.has_gid = TRUE]
             ELSE invalid("GID")
        [] key = "mode" ->
             IF n.ok THEN [st EXCEPT !.parsed.mode = ToUnsigned(n.val), !.parsed.has_mode = TRUE]
             ELSE invalid("mode")
        [] key = "dmode" ->
             IF n.ok THEN [st EXCEPT !.parsed.dmode = ToUnsigned(n.val), !.parsed.has_dmode = TRUE]
             ELSE invalid("dmode")
        [] key = "fmode" ->
             IF n.ok THEN [st EXCEPT !.parsed.fmode = ToUnsigned(n.val), !.parsed.has_fmode = TRUE]
             ELSE invalid("fmode")
        [] key = "capabilities" ->
             IF n.ok THEN [st EXCEPT !.parsed.capabilities = ToUnsigned(n.val),
                                     !.parsed.has_capabilities = TRUE]
             ELSE invalid("capabilities")
        [] key = "selabel" ->
             IF value # "" THEN [st EXCEPT !.parsed.selabel = value, !.parsed.has_selabel = TRUE]
             ELSE invalid("selabel")
        [] OTHER -> UnknownKey(st, key)

\* for (size_t i = 1; i < args.size(); i += 2)
RECURSIVE ParseLoop(_, _, _)
ParseLoop(st, args, i) ==
  IF i > Len(args) THEN st
  ELSE ParseLoop(ParsePair(st, args[i], args[i + 1]), args, i + 2)

\* ParsePermArgs(state, args): args[1] is the path (args[0] in the source).
ParsePermArgs(args, warn) ==
  ParseLoop([parsed |-> ZeroParsed, ui |-> <<>>, warn |-> warn, out |-> <<>>], args, 2)

----------------------------------------------------------------------------
(* Files and their attributes.                                             *)

\* Most (path, attribute) changes the OS refuses at a time.
MaxDenied == 2

\* Width of one capability word, in bits (scaled from 32).
WordBits == 15
Word == 2 ^ WordBits

NoCaps == [present |-> FALSE, magic |-> "", permitted |-> <<0, 0>>, inheritable |-> <<0, 0>>]

\* data is the content of a regular file, named by its SHA-1, or the target of a
\* symbolic link.
Node(type, caps, data) ==
  [type |-> type, selabel |-> "u:object_r:unlabeled:s0", uid |-> 0, gid |-> 0,
   mode |-> 384, caps |-> caps, data |-> data]

\* Where the patch collaborator keeps its scratch copy of a source file.
CacheTemp == "/cache/saved.file"

\* The paths of the model in directory order; the last three do not exist
\* before the script runs.
AllPaths ==
  <<"/system", "/system/bin", "/system/bin/sh", "/system/vendor", "/system/missing",
    "/system/missing/f", CacheTemp>>

OldCaps ==
  [present |-> TRUE, magic |-> "VFS_CAP_REVISION|VFS_CAP_FLAGS_EFFECTIVE",
   permitted |-> <<1, 0>>, inheritable |-> <<0, 0>>]

NoNode == Node("none", NoCaps, "")

\* The tree before the call; the regular file has a capability set or has none.
InitFs(withCaps) ==
  [p \in Range(AllPaths) |->
     CASE p = "/system" -> Node("dir", NoCaps, "")
       [] p = "/system/bin" -> Node("dir", NoCaps, "")
       [] p = "/system/bin/sh" ->
            Node("reg", IF withCaps THEN OldCaps ELSE NoCaps, "sha_old")
       [] p = "/system/vendor" -> Node("lnk", NoCaps, "/vendor")
       [] OTHER -> NoNode]

Attrs == {"selabel", "uid", "gid", "mode", "dmode", "fmode", "capabilities"}

\* The attributes ApplyParsedPerms can try to change on a file of the type.
AttrsOfType(type) ==
  CASE type = "lnk" -> {"selabel"}
    [] type = "dir" -> {"selabel", "uid", "gid", "mode", "dmode"}
    [] type = "reg" -> {"selabel", "uid", "gid", "mode", "fmode", "capabilities"}
    [] OTHER -> {}

DeniablePairs ==
  {<<p, a>> : p \in Range(AllPaths), a \in Attrs} \cap
  UNION {{<<p, a>> : a \in AttrsOfType(InitFs(FALSE)[p].type)} : p \in Range(AllPaths)}

\* The directory part of a path: up to its last '/'.
RECURSIVE LastSlash(_, _)
LastSlash(path, i) ==
  IF i = 0 \/ CharAt(path, i) = "/" THEN i ELSE LastSlash(path, i - 1)

Dirname(path) == SubSeq(path, 1, LastSlash(path, Len(path)) - 1)

\* The entries of directory dir, in directory order.
Children(files, dir) ==
  SelectSeq(AllPaths, LAMBDA q : files[q].type # "none" /\ Dirname(q) = dir)

\* nftw's visiting order with FTW_DEPTH | FTW_PHYS: a directory after its
\* entries, symbolic links not followed.
RECURSIVE PostOrder(_, _)
RECURSIVE PostOrderAll(_, _)
PostOrder(files, path) ==
  IF files[path].type = "dir"
    THEN PostOrderAll(files, Children(files, path)) \o <<path>>
    ELSE <<path>>
PostOrderAll(files, paths) ==
  IF paths = <<>> THEN <<>>
  ELSE PostOrder(files, Head(paths)) \o PostOrderAll(files, Tail(paths))

----------------------------------------------------------------------------
(* ApplyParsedPerms: st is [fs, denied, log, ui, bad].                     *)

\* One attribute change through syscall sys: refused when the pair is denied.
Change(st, cond, path, attr, sys, node) ==
  IF ~cond THEN st
  ELSE IF <<path, attr>> \in st.denied
    THEN [st EXCEPT !.log = Append(st.log, [path |-> path, attr |-> attr, sys |-> sys,
                                            res |-> "failed"]),
                    !.ui = Append(st.ui, "ApplyParsedPerms: " \o sys \o " failed"),
                    !.bad = st.bad + 1]
    ELSE [st EXCEPT !.log = Append(st.log, [path |-> path, attr |-> attr, sys |-> sys,
                                            res |-> "ok"]),
                    !.fs[path] = node]

\* removexattr(filename, XATTR_NAME_CAPS): ENODATA when the attribute is not
\* set, which is not counted as a failure.
RemoveCaps(st, cond, path) ==
  IF ~cond THEN st
  ELSE IF <<path, "capabilities">> \notin st.denied /\ ~st.fs[path].caps.present
    THEN [st EXCEPT !.log = Append(st.log, [path |-> path, attr |-> "capabilities",
                                            sys |-> "removexattr", res |-> "ENODATA"])]
    ELSE Change(st, TRUE, path, "capabilities", "removexattr",
                [st.fs[path] EXCEPT !.caps = NoCaps])

\* Variant: the upper word of the value is dropped.
CapDataLow(capabilities) ==
  [present |-> TRUE, magic |-> "VFS_CAP_REVISION|VFS_CAP_FLAGS_EFFECTIVE",
   permitted |-> <<capabilities % Word, 0>>,
   inheritable |-> <<0, 0>>]

\* struct vfs_cap_data for a non-zero capability value.
CapData(capabilities) ==
  [present |-> TRUE, magic |-> "VFS_CAP_REVISION|VFS_CAP_FLAGS_EFFECTIVE",
   permitted |-> <<capabilities % Word, (capabilities \div Word) % Word>>,
   inheritable |-> <<0, 0>>]

\* A variant that leaves a symbolic link before its label is set.
ApplyParsedPermsLinkFirst(st0, filename, type, parsed) ==
  LET s0 == [st0 EXCEPT !.bad = 0]
      s1 == Change(s0, parsed.has_selabel, filename, "selabel", "lsetfilecon",
                   [s0.fs[filename] EXCEPT !.selabel = parsed.selabel])
      s2 == Change(s1, parsed.has_uid, filename, "uid", "chown",
                   [s1.fs[filename] EXCEPT !.uid = parsed.uid])
  IN  IF type = "lnk" THEN s0 ELSE s2

\* A variant that returns at the first change that fails.
ApplyParsedPermsStopAtFailure(st0, filename, type, parsed) ==
  LET f(st) == st.fs[filename]
      s0 == [st0 EXCEPT !.bad = 0]
      s1 == Change(s0, parsed.has_selabel, filename, "selabel", "lsetfilecon",
                   [f(s0) EXCEPT !.selabel = parsed.selabel])
      s2 == Change(s1, s1.bad = 0 /\ parsed.has_uid, filename, "uid", "chown",
                   [f(s1) EXCEPT !.uid = parsed.uid])
      s3 == Change(s2, s2.bad = 0 /\ parsed.has_gid, filename, "gid", "chown",
                   [f(s2) EXCEPT !.gid = parsed.gid])
      s4 == Change(s3, s3.bad = 0 /\ parsed.has_mode, filename, "mode", "chmod",
                   [f(s3) EXCEPT !.mode = parsed.mode])
      s5 == Change(s4, s4.bad = 0 /\ parsed.has_dmode /\ type = "dir", filename, "dmode",
                   "chmod", [f(s4) EXCEPT !.mode = parsed.dmode])
      s6 == Change(s5, s5.bad = 0 /\ parsed.has_fmode /\ type = "reg", filename, "fmode",
                   "chmod", [f(s5) EXCEPT !.mode = parsed.fmode])
      s7 == IF parsed.capabilities = 0
              THEN RemoveCaps(s6, s6.bad = 0 /\ parsed.has_capabilities /\ type = "reg",
                              filename)
              ELSE Change(s6, s6.bad = 0 /\ parsed.has_capabilities /\ type = "reg",
                          filename, "capabilities", "setxattr",
                          [f(s6) EXCEPT !.caps = CapData(parsed.capabilities)])
  IN  IF type = "lnk" THEN s1 ELSE s7

ApplyParsedPerms(st0, filename, type, parsed) ==
  LET f(st) == st.fs[filename]
      s0 == [st0 EXCEPT !.bad = 0]
      s1 == Change(s0, parsed.has_selabel, filename, "selabel", "lsetfilecon",
                   [f(s0) EXCEPT !.selabel = parsed.selabel])
      s2 == Change(s1, parsed.has_uid, filename, "uid", "chown",
                   [f(s1) EXCEPT !.uid = parsed.uid])
      s3 == Change(s2, parsed.has_gid, filename, "gid", "chown",
                   [f(s2) EXCEPT !.gid = parsed.gid])
      s4 == Change(s3, parsed.has_mode, filename, "mode", "chmod",
                   [f(s3) EXCEPT !.mode = parsed.mode])
      s5 == Change(s4, parsed.has_dmode /\ type = "dir", filename, "dmode", "chmod",
                   [f(s4) EXCEPT !.mode = parsed.dmode])
      s6 == Change(s5, parsed.has_fmode /\ type = "reg", filename, "fmode", "chmod",
                   [f(s5) EXCEPT !.mode = parsed.fmode])
      s7 == IF parsed.capabilities = 0
              THEN RemoveCaps(s6, parsed.has_capabilities /\ type = "reg", filename)
              ELSE Change(s6, parsed.has_capabilities /\ type = "reg", filename,
                          "capabilities", "setxattr",
                          [f(s6) EXCEPT !.caps = CapData(parsed.capabilities)])
  IN  IF type = "lnk" THEN s1 ELSE s7

\* nftw(path, do_SetMetadataRecursive, ...): calls ApplyParsedPerms on each entry
\* of the order until one call returns non-zero, and returns that value; returns
\* -1 when the walk itself fails, here after errAt entries.
RECURSIVE Nftw(_, _, _, _, _)
Nftw(st, order, i, errAt, parsed) ==
  IF i - 1 = errAt THEN [st EXCEPT !.bad = -1]
  ELSE IF i > Len(order) THEN [st EXCEPT !.bad = 0]
  ELSE LET r == ApplyParsedPerms(st, order[i], st.fs[order[i]].type, parsed)
       IN  IF r.bad # 0 THEN r ELSE Nftw(r, order, i + 1, errAt, parsed)

NoWalkError == -1

----------------------------------------------------------------------------
(* set_metadata and set_metadata_recursive.                                *)

ValueOf(key, caps) ==
  CASE key = "selabel" -> "u:object_r:system_file:s0"
    [] key = "uid" -> "1000"
    [] key = "gid" -> "2000"
    [] key = "mode" -> "0644"
    [] key = "dmode" -> "0755"
    [] key = "fmode" -> "0640"
    [] OTHER -> caps

\* The key/value arguments naming the keys of the set, in the order of keys.
RECURSIVE PairsFor(_, _, _)
PairsFor(keys, present, caps) ==
  IF keys = <<>> THEN <<>>
  ELSE (IF Head(keys) \in present THEN <<Head(keys), ValueOf(Head(keys), caps)>> ELSE <<>>)
         \o PairsFor(Tail(keys), present, caps)

\* The key sets the script uses: one key, all keys, or all keys but one.
KeySets ==
  {S \in SUBSET Attrs : Cardinality(S) <= 1 \/ Cardinality(S) >= Cardinality(Attrs) - 1}

MetadataPairs ==
  {PairsFor(KnownKeys, S, "0x0") : S \in KeySets}
    \cup {PairsFor(KnownKeys, S, "0x8001") : S \in {{"capabilities"}, Attrs}}
    \cup {<<"capabilities", "0x3fffffff">>}
    \cup {<<"uid">>, <<"uid", "abc", "mode", "0644">>, <<"bogus", "1", "uid", "1000">>,
          <<"selabel", "", "gid", "2000">>}

\* The walk can fail only where there is a tree to walk.
WalkErrors(name, path) ==
  IF name = "set_metadata_recursive" /\ path = "/system"
    THEN {NoWalkError} \cup (0..(Len(PostOrder(InitFs(TRUE), path)) - 1))
    ELSE {NoWalkError}

\* The entries a call on path reaches.
Reach(name, files, path) ==
  IF name = "set_metadata_recursive" THEN Range(PostOrder(files, path)) ELSE {path}

\* The changes the OS may refuse during one call: at most MaxDenied of those on
\* the entries the call reaches.
DeniedSets(name, files, path) ==
  {D \in SUBSET {d \in DeniablePairs : d[1] \in Reach(name, files, path)} :
     Cardinality(D) <= MaxDenied}

SetMetadataFn(name, argv, evalOk, errAt) ==
  /\ pc = "idle"
  /\ Begin([fn |-> name, args |-> argv])
  /\ pc' = "idle"
  /\ oplog' = <<>>
  /\ IF (Len(argv) % 2) # 1 \/ ~evalOk
       THEN /\ ret' = ErrorAbort(kArgsParsingFailure)
            /\ UNCHANGED <<fs, denied, syslog, bad, ui, max_warnings, stdout, last_parsed>>
       ELSE IF fs[argv[1]].type = "none"
       THEN /\ ret' = ErrorAbort(kSetMetadataFailure)
            /\ UNCHANGED <<fs, denied, syslog, bad, ui, max_warnings, stdout, last_parsed>>
       ELSE
         \E p \in {ParsePermArgs(argv, max_warnings)} :
         \E D \in DeniedSets(name, fs, argv[1]) :
         \E r \in {LET st == [fs |-> fs, denied |-> D, log |-> <<>>, ui |-> p.ui, bad |-> 0]
                   IN  IF name = "set_metadata_recursive"
                         THEN Nftw(st, PostOrder(fs, argv[1]), 1, errAt, p.parsed)
                         ELSE ApplyParsedPerms(st, argv[1], fs[argv[1]].type, p.parsed)} :
             /\ denied' = D
             /\ fs' = r.fs
             /\ syslog' = r.log
             /\ ui' = r.ui
             /\ bad' = r.bad
             /\ max_warnings' = p.warn
             /\ stdout' = stdout \o p.out
             /\ last_parsed' = p.parsed
             /\ ret' = IF r.bad > 0 THEN ErrorAbort(kSetMetadataFailure)
                       ELSE StringValue("")
  /\ fs0' = fs
  /\ UNCHANGED <<disk, boot, powerctl, quiescent, lastSet, formatVars, sysVars>>

InitMeta ==
  /\ pc = "idle"
  /\ call = NoCall
  /\ ret = NoRet
  /\ disk \in {r \in InitRecords : CStr(r.command) = "" /\ CStr(r.stage) = ""}
  /\ boot = NoBoot
  /\ powerctl = ""
  /\ quiescent = FALSE
  /\ oplog = <<>>
  /\ before = disk
  /\ interrupted = ""
  /\ retried = ""
  /\ lastSet = [set |-> FALSE, tok |-> ""]
  /\ \E withCaps \in BOOLEAN : fs = InitFs(withCaps)
  /\ fs0 = fs
  /\ denied = {}
  /\ syslog = <<>>
  /\ bad = 0
  /\ ui = <<>>
  /\ max_warnings = MaxWarnings
  /\ stdout = <<>>
  /\ last_parsed = ZeroParsed
  /\ execlog = <<>>
  /\ is_retry = FALSE
  /\ mounts = NoMounts
  /\ volumes = NoMounts

\* The script makes one metadata call on the tree.
NextMeta ==
  /\ call = NoCall
  /\ \E name \in {"set_metadata", "set_metadata_recursive"},
        path \in Range(AllPaths), pairs \in MetadataPairs, evalOk \in BOOLEAN :
       \E errAt \in WalkErrors(name, path) :
         SetMetadataFn(name, <<path>> \o pairs, evalOk, errAt)

SpecMeta == InitMeta /\ [][NextMeta]_vars

\* The perm specs of a script that keeps passing a key ParsePermArgs does not
\* know, before, between and after the keys it knows.
WarnPairs ==
  {<<"uid", "1000">>, <<"bogus", "1", "uid", "1000">>,
   <<"selabel", "u:object_r:system_file:s0", "bogus", "1">>,
   <<"bogus", "1", "bogus", "0644", "mode", "0644">>,
   <<"bogus", "uid", "bogus", "mode", "bogus", "gid">>, <<"bogus">>}

\* The script makes metadata calls on a symbolic link, any number of times, in
\* one run of the updater.
NextWarn ==
  \E pairs \in WarnPairs, evalOk \in BOOLEAN :
    SetMetadataFn("set_metadata", <<"/system/vendor">> \o pairs, evalOk, NoWalkError)

SpecWarn == InitMeta /\ [][NextWarn]_vars

----------------------------------------------------------------------------
(* format and the child processes it runs.                                 *)

\* A wait status: the exit code in bits 8..15, the ending signal in bits 0..6.
Exited(code) == code * 256
Signaled(sig) == sig
WEXITSTATUS(status) == (status \div 256) % 256
WaitStatuses == {Exited(0), Exited(1), Signaled(9)}

\* Variant: the status of the child is dropped.
exec_cmdIgnoring(log, path, argv, status) ==
  [log |-> Append(log, [path |-> path, argv |-> argv, status |-> status]),
   status |-> 0]

\* exec_cmd(path, argv): runs the child, which ends with the wait status, and
\* returns WEXITSTATUS of it whether or not the child exited.
exec_cmd(log, path, argv, status) ==
  [log |-> Append(log, [path |-> path, argv |-> argv, status |-> status]),
   status |-> WEXITSTATUS(status)]

\* Integer division of C++, which truncates toward zero.
TruncDiv(a, b) == IF a >= 0 THEN a \div b ELSE -((-a) \div b)

\* Variant: a number is written as a truth value.
to_stringTruth(n) == IF n > 0 THEN "t" ELSE ""

\* std::to_string of an integer.
RECURSIVE ToDigits(_)
ToDigits(n) ==
  IF n < 10 THEN SubSeq("0123456789", n + 1, n + 1)
  ELSE ToDigits(n \div 10) \o SubSeq("0123456789", (n % 10) + 1, (n % 10) + 1)
to_string(n) == IF n < 0 THEN "-" \o ToDigits(-n) ELSE ToDigits(n)

\* android::base::ParseInt(s, &size): strtoll in base 16 after a 0x prefix and
\* in base 10 otherwise; fails unless the whole string is a number.
ParseInt(s) ==
  LET hex == CharAt(s, 1) = "0" /\ CharAt(s, 2) \in {"x", "X"}
      i == SkipSpace(s, 1)
      neg == CharAt(s, i) = "-"
      j == IF CharAt(s, i) \in {"-", "+"} THEN i + 1 ELSE i
      d == IF hex THEN ScanDigits(s, j + 2, 16, 0, 0) ELSE ScanDigits(s, j, 10, 0, 0)
      end == (IF hex THEN j + 2 ELSE j) + d.n
  IN  [ok |-> d.n > 0 /\ end = Len(s) + 1, val |-> IF neg THEN -d.val ELSE d.val]

BlockSize == 4096
SectorSize == 512

\* The sizes a script passes, in bytes: around zero, one sector and one block.
FsSizes ==
  {0, 1, SectorSize - 1, SectorSize, SectorSize + 1, BlockSize - 1, BlockSize,
   BlockSize + 1, 2 * BlockSize, -1, -SectorSize, -BlockSize, -(BlockSize + 1),
   -(2 * BlockSize)}

FsSizeArgs == {to_string(n) : n \in FsSizes} \cup {"0x1000", "", "4096k", "four"}

FormatArgs ==
  {<<t, pt, loc, sz, mp>> :
     t \in {"ext4", "f2fs", "vfat", ""}, pt \in {"EMMC", ""},
     loc \in {"/dev/block/userdata", ""}, sz \in FsSizeArgs, mp \in {"/data", ""}}
    \cup {<<"ext4", "EMMC", "/dev/block/userdata", "0">>}

Mke2fsArgv(location) == <<"/sbin/mke2fs_static", "-t", "ext4", "-b", "4096", location>>
E2fsdroidArgv(mount_point, location) ==
  <<"/sbin/e2fsdroid_static", "-e", "-a", mount_point, location>>
F2fsArgv(location) ==
  <<"mkfs.f2fs", "-d1", "-f", "-O", "encrypt", "-O", "quota", "-O", "verity", "-w", "512",
    location>>
SloadArgv(mount_point, location) == <<"/sbin/sload.f2fs", "-t", mount_point, location>>

\* The ext4 branch: [log, ret].
FormatExt4(location, mount_point, size, st1, st2) ==
  LET argv == Mke2fsArgv(location) \o
                (IF size # 0 THEN <<to_string(TruncDiv(size, BlockSize))>> ELSE <<>>)
      r1 == exec_cmd(<<>>, argv[1], argv, st1)
      r2 == exec_cmd(r1.log, "/sbin/e2fsdroid_static", E2fsdroidArgv(mount_point, location), st2)
  IN  IF r1.status # 0 THEN [log |-> r1.log, ret |-> StringValue("")]
      ELSE IF r2.status # 0 THEN [log |-> r2.log, ret |-> StringValue("")]
      ELSE [log |-> r2.log, ret |-> StringValue(location)]

\* The f2fs branch: [log, ret].
FormatF2fs(location, mount_point, size, st1, st2) ==
  LET num_sectors == to_string(TruncDiv(size, SectorSize))
      argv == F2fsArgv(location) \o (IF size < SectorSize THEN <<>> ELSE <<num_sectors>>)
      r1 == exec_cmd(<<>>, "/sbin/mkfs.f2fs", argv, st1)
      r2 == exec_cmd(r1.log, "/sbin/sload.f2fs", SloadArgv(mount_point, location), st2)
  IN  IF size < 0 THEN [log |-> <<>>, ret |-> StringValue("")]
      ELSE IF r1.status # 0 THEN [log |-> r1.log, ret |-> StringValue("")]
      ELSE IF r2.status # 0 THEN [log |-> r2.log, ret |-> StringValue("")]
      ELSE [log |-> r2.log, ret |-> StringValue(location)]

\* format(fs_type, partition_type, location, fs_size, mount_point); st1 and st2
\* are the wait statuses of the two children, if they are run.
FormatFn(argv, evalOk, st1, st2) ==
  /\ pc = "idle"
  /\ Begin([fn |-> "format", args |-> argv])
  /\ pc' = "idle"
  /\ oplog' = <<>>
  /\ \E r \in {IF Len(argv) # 5 \/ ~evalOk
                 THEN [log |-> <<>>, ret |-> ErrorAbort(kArgsParsingFailure)]
               ELSE IF argv[1] = "" \/ argv[2] = "" \/ argv[3] = "" \/ argv[5] = ""
                 THEN [log |-> <<>>, ret |-> ErrorAbort(kArgsParsingFailure)]
               ELSE IF ~ParseInt(argv[4]).ok
                 THEN [log |-> <<>>, ret |-> ErrorAbort(kArgsParsingFailure)]
               ELSE IF argv[1] = "ext4"
                 THEN FormatExt4(argv[3], argv[5], ParseInt(argv[4]).val, st1, st2)
               ELSE IF argv[1] = "f2fs"
                 THEN FormatF2fs(argv[3], argv[5], ParseInt(argv[4]).val, st1, st2)
               ELSE [log |-> <<>>, ret |-> NullValue]} :
       /\ execlog' = r.log
       /\ ret' = r.ret
  /\ UNCHANGED <<disk, boot, powerctl, quiescent, lastSet, metaVars, sysVars>>

InitFormat ==
  /\ pc = "idle"
  /\ call = NoCall
  /\ ret = NoRet
  /\ disk \in {r \in InitRecords : CStr(r.command) = "" /\ CStr(r.stage) = ""}
  /\ boot = NoBoot
  /\ powerctl = ""
  /\ quiescent = FALSE
  /\ oplog = <<>>
  /\ before = disk
  /\ interrupted = ""
  /\ retried = ""
  /\ lastSet = [set |-> FALSE, tok |-> ""]
  /\ fs = NoFs
  /\ fs0 = NoFs
  /\ denied = {}
  /\ syslog = <<>>
  /\ bad = 0
  /\ ui = <<>>
  /\ max_warnings = MaxWarnings
  /\ stdout = <<>>
  /\ last_parsed = ZeroParsed
  /\ execlog = <<>>
  /\ is_retry = FALSE
  /\ mounts = NoMounts
  /\ volumes = NoMounts

\* The script makes one format call.
NextFormat ==
  /\ call = NoCall
  /\ \E argv \in FormatArgs, evalOk \in BOOLEAN, st1 \in WaitStatuses,
        st2 \in WaitStatuses :
       FormatFn(argv, evalOk, st1, st2)

SpecFormat == InitFormat /\ [][NextFormat]_vars

----------------------------------------------------------------------------
(* rename, symlink and apply_patch. st is [fs, log, bad]; refused holds the *)
(* kinds of call the OS refuses during the call.                           *)

kFileRenameFailure == "kFileRenameFailure"
kSymlinkFailure == "kSymlinkFailure"

RefusedSets == {{}, {"mkdir"}, {"rename"}, {"unlink"}, {"symlink"}}

\* One call of the OS on path, with its result, added to the log.
Sys(st, path, sys, res) ==
  [st EXCEPT !.log = Append(st.log, [path |-> path, attr |-> "", sys |-> sys, res |-> res])]

\* stat(dirpath) == 0 && S_ISDIR(st.st_mode)
is_dir(files, dirpath) == files[dirpath].type = "dir"

\* The prefixes of name that end before a '/' other than the first character.
RECURSIVE ParentsFrom(_, _)
ParentsFrom(name, i) ==
  IF i > Len(name) THEN <<>>
  ELSE (IF CharAt(name, i) = "/" THEN <<SubSeq(name, 1, i - 1)>> ELSE <<>>)
         \o ParentsFrom(name, i + 1)

\* make_parents(name): mkdir of each parent that is not a directory, stopping
\* at the first mkdir that fails. Returns [ok, st].
RECURSIVE MakeDirs(_, _, _, _)
MakeDirs(st, dirs, i, refused) ==
  IF i > Len(dirs) THEN [ok |-> TRUE, st |-> st]
  ELSE IF is_dir(st.fs, dirs[i]) THEN MakeDirs(st, dirs, i + 1, refused)
  ELSE IF "mkdir" \in refused \/ st.fs[dirs[i]].type # "none"
    THEN [ok |-> FALSE, st |-> Sys(st, dirs[i], "mkdir", "failed")]
  ELSE MakeDirs([Sys(st, dirs[i], "mkdir", "ok") EXCEPT
                   !.fs[dirs[i]] = [Node("dir", NoCaps, "") EXCEPT !.mode = 448]],
                dirs, i + 1, refused)

make_parents(st, name, refused) == MakeDirs(st, ParentsFrom(name, 2), 1, refused)

\* access(path, F_OK) == 0; the targets of the links of the model exist.
Exists(files, path) == files[path].type # "none"

Inside(dir, path) ==
  Len(path) > Len(dir) /\ SubSeq(path, 1, Len(dir) + 1) = dir \o "/"

\* rename(src, dst) of the OS: [ok, st]. A directory does not replace a file,
\* nor a file a directory.
OsRename(st, src, dst, refused) ==
  IF \/ "rename" \in refused \/ ~Exists(st.fs, src) \/ Inside(src, dst)
     \/ st.fs[dst].type = "dir" /\ st.fs[src].type # "dir"
     \/ st.fs[src].type = "dir" /\ st.fs[dst].type \notin {"none", "dir"}
    THEN [ok |-> FALSE, st |-> Sys(st, src, "rename", "failed")]
  ELSE IF src = dst THEN [ok |-> TRUE, st |-> Sys(st, src, "rename", "ok")]
  ELSE [ok |-> TRUE,
        st |-> [Sys(st, src, "rename", "ok") EXCEPT !.fs[dst] = st.fs[src],
                                                    !.fs[src] = NoNode]]

\* Variant: a rename is never taken to be done already.
AlreadyMovedNever(files, src, dst) == FALSE

\* access(dst_name, F_OK) == 0 && access(src_name, F_OK) != 0
AlreadyMoved(files, src, dst) == Exists(files, dst) /\ ~Exists(files, src)

RenameArgs ==
  {<<src, dst>> : src \in {"/system/bin/sh", "/system/missing", ""},
                  dst \in {"/system/missing/f", "/system/missing", "/system/bin/sh", ""}}
    \cup {<<"/system/bin/sh">>}

\* rename(src_name, dst_name)
RenameFn(argv, evalOk, refused) ==
  /\ pc = "idle"
  /\ Begin([fn |-> "rename", args |-> argv])
  /\ pc' = "idle"
  /\ oplog' = <<>>
  /\ \E r \in {LET st == [fs |-> fs, log |-> <<>>, bad |-> 0]
                  p == make_parents(st, argv[2], refused)
                  m == OsRename(p.st, argv[1], argv[2], refused)
              IN  IF Len(argv) # 2 \/ ~evalOk
                    THEN [st |-> st, ret |-> ErrorAbort(kArgsParsingFailure)]
                  ELSE IF argv[1] = "" \/ argv[2] = ""
                    THEN [st |-> st, ret |-> ErrorAbort(kArgsParsingFailure)]
                  ELSE IF ~p.ok
                    THEN [st |-> p.st, ret |-> ErrorAbort(kFileRenameFailure)]
                  ELSE IF AlreadyMoved(p.st.fs, argv[1], argv[2])
                    THEN [st |-> p.st, ret |-> StringValue(argv[2])]
                  ELSE IF ~m.ok
                    THEN [st |-> m.st, ret |-> ErrorAbort(kFileRenameFailure)]
                  ELSE [st |-> m.st, ret |-> StringValue(argv[2])]} :
       /\ fs' = r.st.fs
       /\ syslog' = r.st.log
       /\ ret' = r.ret
  /\ fs0' = fs
  /\ UNCHANGED <<disk, boot, powerctl, quiescent, lastSet, denied, bad, ui,
                 max_warnings, stdout, last_parsed, formatVars, sysVars>>

\* The body of the loop over srcs.
SymlinkOne(st, target, src, refused) ==
  LET u == IF ~Exists(st.fs, src) THEN Sys(st, src, "unlink", "ENOENT")
           ELSE [Sys(st, src, "unlink", "ok") EXCEPT !.fs[src] = NoNode]
      p == make_parents(u, src, refused)
  IN  IF "unlink" \in refused \/ is_dir(st.fs, src)
        THEN [Sys(st, src, "unlink", "failed") EXCEPT !.bad = st.bad + 1]
      ELSE IF ~p.ok THEN [p.st EXCEPT !.bad = st.bad + 1]
      ELSE IF "symlink" \in refused
        THEN [Sys(p.st, src, "symlink", "failed") EXCEPT !.bad = st.bad + 1]
      ELSE [Sys(p.st, src, "symlink", "ok") EXCEPT !.fs[src] = Node("lnk", NoCaps, target)]

RECURSIVE SymlinkLoop(_, _, _, _)
SymlinkLoop(st, argv, i, refused) ==
  IF i > Len(argv) THEN st
  ELSE SymlinkLoop(SymlinkOne(st, argv[1], argv[i], refused), argv, i + 1, refused)

SymlinkArgs ==
  {<<>>, <<"/system/bin/sh">>, <<"/system/bin/sh", "/system/vendor">>,
   <<"/system/bin/sh", "/system/missing/f">>, <<"/system/bin/sh", "/system/bin">>,
   <<"/system/bin/sh", "/system/vendor", "/system/missing/f">>,
   <<"/system/bin/sh", "/system/bin", "/system/vendor">>}

\* symlink(target, [src1, src2, ...]); evalFail tells which evaluation fails.
SymlinkFn(argv, evalFail, refused) ==
  /\ pc = "idle"
  /\ Begin([fn |-> "symlink", args |-> argv])
  /\ pc' = "idle"
  /\ oplog' = <<>>
  /\ \E r \in {LET st == [fs |-> fs, log |-> <<>>, bad |-> 0]
                  l == SymlinkLoop(st, argv, 2, refused)
              IN  IF Len(argv) = 0
                    THEN [st |-> st, ret |-> ErrorAbort(kArgsParsingFailure)]
                  ELSE IF evalFail = "target" THEN [st |-> st, ret |-> NullValue]
                  ELSE IF evalFail = "srcs"
                    THEN [st |-> st, ret |-> ErrorAbort(kArgsParsingFailure)]
                  ELSE IF l.bad # 0 THEN [st |-> l, ret |-> ErrorAbort(kSymlinkFailure)]
                  ELSE [st |-> l, ret |-> StringValue("t")]} :
       /\ fs' = r.st.fs
       /\ syslog' = r.st.log
       /\ bad' = r.st.bad
       /\ ret' = r.ret
  /\ fs0' = fs
  /\ UNCHANGED <<disk, boot, powerctl, quiescent, lastSet, denied, ui, max_warnings, stdout,
                 last_parsed, formatVars, sysVars>>

\* Variant: every string parses.
ParseUintAny(s) == [ok |-> TRUE, val |-> 0]

\* android::base::ParseUint(s, &target_size): as ParseInt, without a sign.
ParseUint(s) ==
  [ok |-> ParseInt(s).ok /\ CharAt(s, SkipSpace(s, 1)) # "-", val |-> ParseInt(s).val]

\* The content the patch collaborator can patch from: the source file's, or
\* the scratch copy's.
SourceContents(files, source) ==
  {files[p].data : p \in {q \in {source, CacheTemp} : files[q].type = "reg"}}

\* Variant: the target is patched again even when it has the declared content.
applypatchAlways(st, source, target, target_sha1, patch_sha_str, ok) ==
  LET tgt == IF target = "-" THEN source ELSE target
  IN  IF ok /\ SourceContents(st.fs, source) \cap patch_sha_str # {}
            /\ st.fs[tgt].type \in {"reg", "none"}
        THEN [result |-> 0,
              st |-> [Sys(st, tgt, "applypatch", "ok") EXCEPT
                        !.fs[tgt] = Node("reg", NoCaps, target_sha1)]]
      ELSE [result |-> 1, st |-> Sys(st, tgt, "applypatch", "failed")]

\* applypatch(source, target, target_sha1, target_size, patch_sha_str, patches):
\* 0 when the target has the declared content already, or the source (or its
\* scratch copy) has the content one of the patches is for and the patching
\* goes through (ok), which leaves the target with the declared content and no
\* scratch copy; 1 otherwise, with the target as it was. Returns [result, st].
applypatch(st, source, target, target_sha1, patch_sha_str, ok) ==
  LET tgt == IF target = "-" THEN source ELSE target
  IN  IF st.fs[tgt].type = "reg" /\ st.fs[tgt].data = target_sha1
        THEN [result |-> 0, st |-> Sys(st, tgt, "applypatch", "ok")]
      ELSE IF ok /\ SourceContents(st.fs, source) \cap patch_sha_str # {}
                 /\ st.fs[tgt].type \in {"reg", "none"}
        THEN [result |-> 0,
              st |-> [Sys(st, tgt, "applypatch", "ok") EXCEPT
                        !.fs[tgt] = [(IF st.fs[tgt].type = "reg" THEN st.fs[tgt]
                                      ELSE Node("reg", NoCaps, "")) EXCEPT
                                       !.data = target_sha1],
                        !.fs[CacheTemp] = NoNode]]
      ELSE [result |-> 1, st |-> Sys(st, tgt, "applypatch", "failed")]

ApplyPatchArgs ==
  {<<"/system/bin/sh", tgt, sha, size, psha, "patch">> :
     tgt \in {"-", "/system/missing"}, sha \in {"sha_new", "sha_old"},
     size \in {"1024", "-1", "1k"}, psha \in {"sha_old", "sha_other"}}
    \cup {<<"/system/bin/sh", "-", "sha_new", "1024">>,
          <<"/system/bin/sh", "-", "sha_new", "1024", "sha_old">>,
          <<"/system/bin/sh", "-", "sha_new", "1024", "sha_other", "patch", "sha_old",
            "patch">>}

\* The types of the values the arguments after the fourth evaluate to.
ValueTypes(argv) ==
  {t \in [5..Len(argv) -> {"VAL_STRING", "VAL_BLOB"}] :
     Cardinality({i \in 5..Len(argv) :
                    t[i] # (IF i % 2 = 1 THEN "VAL_STRING" ELSE "VAL_BLOB")}) <= 1}

\* apply_patch(src_file, tgt_file, tgt_sha1, tgt_size, patch1_sha1, patch1_blob, ...)
ApplyPatchFn(argv, types, evalFail, ok) ==
  /\ pc = "idle"
  /\ Begin([fn |-> "apply_patch", args |-> argv, types |-> types])
  /\ pc' = "idle"
  /\ oplog' = <<>>
  /\ \E r \in {LET st == [fs |-> fs, log |-> <<>>, bad |-> 0]
                  patchcount == (Len(argv) - 4) \div 2
                  patch_sha_str == {argv[4 + 2 * i - 1] : i \in 1..patchcount}
                  a == applypatch(st, argv[1], argv[2], argv[3], patch_sha_str, ok)
              IN  IF Len(argv) < 6 \/ Len(argv) % 2 = 1
                    THEN [st |-> st, ret |-> ErrorAbort(kArgsParsingFailure)]
                  ELSE IF evalFail = "args"
                    THEN [st |-> st, ret |-> ErrorAbort(kArgsParsingFailure)]
                  ELSE IF ~ParseUint(argv[4]).ok
                    THEN [st |-> st, ret |-> ErrorAbort(kArgsParsingFailure)]
                  ELSE IF evalFail = "values" THEN [st |-> st, ret |-> NullValue]
                  ELSE IF \E i \in 1..patchcount :
                            \/ types[4 + 2 * i - 1] # "VAL_STRING"
                            \/ types[4 + 2 * i] # "VAL_BLOB"
                    THEN [st |-> st, ret |-> ErrorAbort(kArgsParsingFailure)]
                  ELSE [st |-> a.st, ret |-> StringValue(IF a.result = 0 THEN "t" ELSE "")]} :
       /\ fs' = r.st.fs
       /\ syslog' = r.st.log
       /\ ret' = r.ret
  /\ fs0' = fs
  /\ UNCHANGED <<disk, boot, powerctl, quiescent, lastSet, denied, bad, ui,
                 max_warnings, stdout, last_parsed, formatVars, sysVars>>

\* Variant: the scratch copy is not looked at.
applypatch_checkFileOnly(files, filename, sha1s) ==
  IF files[filename].type = "reg" /\ files[filename].data \in sha1s THEN 0 ELSE 1

\* applypatch_check(filename, sha1s): 0 when the content of the file, or of the
\* scratch copy, is one of sha1s, and 1 otherwise; nothing is changed.
applypatch_check(files, filename, sha1s) ==
  IF SourceContents(files, filename) \cap sha1s # {} THEN 0 ELSE 1

ApplyPatchCheckArgs ==
  {<<>>, <<"/system/bin/sh">>, <<"/system/bin/sh", "sha_old">>,
   <<"/system/bin/sh", "sha_new">>, <<"/system/bin/sh", "sha_other", "sha_new">>,
   <<"/system/missing", "sha_old">>}

\* apply_patch_check(filename, [sha1, ...])
ApplyPatchCheckFn(argv, evalFail) ==
  /\ pc = "idle"
  /\ Begin([fn |-> "apply_patch_check", args |-> argv])
  /\ pc' = "idle"
  /\ oplog' = <<>>
  /\ IF Len(argv) < 1 \/ evalFail = "args" \/ (Len(argv) > 1 /\ evalFail = "values")
       THEN /\ ret' = ErrorAbort(kArgsParsingFailure)
            /\ syslog' = <<>>
       ELSE LET result == applypatch_check(fs, argv[1], {argv[i] : i \in 2..Len(argv)})
            IN  /\ ret' = StringValue(IF result = 0 THEN "t" ELSE "")
                /\ syslog' = <<[path |-> argv[1], attr |-> "", sys |-> "applypatch_check",
                                res |-> IF result = 0 THEN "ok" ELSE "failed"]>>
  /\ fs0' = fs
  /\ UNCHANGED <<disk, boot, powerctl, quiescent, lastSet, fs, denied, bad, ui,
                 max_warnings, stdout, last_parsed, formatVars, sysVars>>

ApplyPatchSpaceArgs == {<<>>, <<"0">>, <<"1024">>, <<"-1">>, <<"1k">>, <<"1024", "2048">>}

\* Variant: the cache size is checked on a retry too.
ApplyPatchSpaceFnChecking(argv, evalOk, check) ==
  /\ pc = "idle"
  /\ Begin([fn |-> "apply_patch_space", args |-> argv])
  /\ pc' = "idle"
  /\ oplog' = <<>>
  /\ IF Len(argv) # 1 \/ ~evalOk \/ ~ParseUint(argv[1]).ok
       THEN /\ ret' = ErrorAbort(kArgsParsingFailure)
            /\ syslog' = <<>>
       ELSE /\ ret' = StringValue(IF check = 0 THEN "t" ELSE "")
            /\ syslog' = <<[path |-> "/cache", attr |-> "", sys |-> "CacheSizeCheck",
                            res |-> IF check = 0 THEN "ok" ELSE "failed"]>>
  /\ fs0' = fs
  /\ UNCHANGED <<disk, boot, powerctl, quiescent, lastSet, fs, denied, bad, ui,
                 max_warnings, stdout, last_parsed, formatVars, sysVars>>

\* apply_patch_space(bytes); check is what CacheSizeCheck(bytes) returns if it
\* is called.
ApplyPatchSpaceFn(argv, evalOk, check) ==
  /\ pc = "idle"
  /\ Begin([fn |-> "apply_patch_space", args |-> argv])
  /\ pc' = "idle"
  /\ oplog' = <<>>
  /\ IF Len(argv) # 1 \/ ~evalOk \/ ~ParseUint(argv[1]).ok
       THEN /\ ret' = ErrorAbort(kArgsParsingFailure)
            /\ syslog' = <<>>
       ELSE IF is_retry
       THEN /\ ret' = StringValue("t")
            /\ syslog' = <<>>
       ELSE /\ ret' = StringValue(IF check = 0 THEN "t" ELSE "")
            /\ syslog' = <<[path |-> "/cache", attr |-> "", sys |-> "CacheSizeCheck",
                            res |-> IF check = 0 THEN "ok" ELSE "failed"]>>
  /\ fs0' = fs
  /\ UNCHANGED <<disk, boot, powerctl, quiescent, lastSet, fs, denied, bad, ui,
                 max_warnings, stdout, last_parsed, formatVars, sysVars>>

\* The files when the script starts: the source as packaged, patched by an
\* earlier run, or torn by an interrupted one, with or without a scratch copy.
PatchFs ==
  {[InitFs(TRUE) EXCEPT !["/system/bin/sh"].data = d, ![CacheTemp] = c] :
     d \in {"sha_old", "sha_new", "sha_torn"},
     c \in {NoNode, Node("reg", NoCaps, "sha_old")}}

InitPatch ==
  /\ pc = "idle"
  /\ call = NoCall
  /\ ret = NoRet
  /\ disk \in {r \in InitRecords : CStr(r.command) = "" /\ CStr(r.stage) = ""}
  /\ boot = NoBoot
  /\ powerctl = ""
  /\ quiescent = FALSE
  /\ oplog = <<>>
  /\ before = disk
  /\ interrupted = ""
  /\ retried = ""
  /\ lastSet = [set |-> FALSE, tok |-> ""]
  /\ fs \in PatchFs
  /\ fs0 = fs
  /\ denied = {}
  /\ syslog = <<>>
  /\ bad = 0
  /\ ui = <<>>
  /\ max_warnings = MaxWarnings
  /\ stdout = <<>>
  /\ last_parsed = ZeroParsed
  /\ execlog = <<>>
  /\ is_retry \in BOOLEAN
  /\ mounts = NoMounts
  /\ volumes = NoMounts

\* The script calls the patching functions one after the other, each call
\* written as f(...) || abort(...): it goes on while the calls return "t".
ScriptGoesOn == call = NoCall \/ ret = StringValue("t")

NextPatch ==
  \/ /\ ScriptGoesOn
     /\ \E argv \in ApplyPatchArgs, evalFail \in {"none", "args", "values"},
           ok \in BOOLEAN :
          \E types \in ValueTypes(argv) : ApplyPatchFn(argv, types, evalFail, ok)
  \/ /\ ScriptGoesOn
     /\ \E argv \in ApplyPatchCheckArgs, evalFail \in {"none", "args", "values"} :
          ApplyPatchCheckFn(argv, evalFail)
  \/ /\ ScriptGoesOn
     /\ \E argv \in ApplyPatchSpaceArgs, evalOk \in BOOLEAN, check \in {0, 1} :
          ApplyPatchSpaceFn(argv, evalOk, check)

SpecPatch == InitPatch /\ [][NextPatch]_vars

----------------------------------------------------------------------------
(* A script that makes one call of a function that can abort the update.   *)

InitCall ==
  /\ pc = "idle"
  /\ call = NoCall
  /\ ret = NoRet
  /\ disk \in {r \in InitRecords : CStr(r.stage) = ""}
  /\ boot = NoBoot
  /\ powerctl = ""
  /\ quiescent = FALSE
  /\ oplog = <<>>
  /\ before = disk
  /\ interrupted = ""
  /\ retried = ""
  /\ lastSet = [set |-> FALSE, tok |-> ""]
  /\ fs = InitFs(TRUE)
  /\ fs0 = fs
  /\ denied = {}
  /\ syslog = <<>>
  /\ bad = 0
  /\ ui = <<>>
  /\ max_warnings = MaxWarnings
  /\ stdout = <<>>
  /\ last_parsed = ZeroParsed
  /\ execlog = <<>>
  /\ is_retry = FALSE
  /\ mounts = NoMounts
  /\ volumes = NoMounts

NextCall ==
  \/ NextMeta
  \/ /\ call = NoCall
     /\ \E argv \in RenameArgs, evalOk \in BOOLEAN, refused \in RefusedSets :
          RenameFn(argv, evalOk, refused)
  \/ /\ call = NoCall
     /\ \E argv \in SymlinkArgs, evalFail \in {"none", "target", "srcs"},
           refused \in RefusedSets :
          SymlinkFn(argv, evalFail, refused)
  \/ /\ call = NoCall
     /\ \E argv \in ApplyPatchArgs, evalFail \in {"none", "args", "values"},
           ok \in BOOLEAN :
          \E types \in ValueTypes(argv) : ApplyPatchFn(argv, types, evalFail, ok)
  \/ /\ call = NoCall
     /\ \E argv \in RebootNowArgs, evalOk \in BOOLEAN : RebootNowFn(argv, evalOk)
  \/ \E ok \in BOOLEAN : RebootNowRead(ok)
  \/ RebootNowClear
  \/ \E ok \in BOOLEAN : RebootNowWrite(ok)
  \/ \E ok \in BOOLEAN : RebootNowSetProperty(ok)
  \/ RebootNowAbort
  \/ DeviceReboots

SpecCall == InitCall /\ [][NextCall]_vars

----------------------------------------------------------------------------
(* mount, is_mounted, unmount and delete. The OS mount table maps a mount   *)
(* point to its volume; the mounts library keeps the table of its last scan.*)

\* MS_NOATIME | MS_NODEV | MS_NODIRATIME
MountFlags == {"MS_NOATIME", "MS_NODEV", "MS_NODIRATIME"}

Volume(device, type, flags, options) ==
  [device |-> device, type |-> type, flags |-> flags, options |-> options]

SystemVolume == Volume("/dev/block/system", "ext4", MountFlags, "")

Mounted(tab, mount_point, vol) ==
  [m \in DOMAIN tab \cup {mount_point} |-> IF m = mount_point THEN vol ELSE tab[m]]

Unmounted(tab, mount_point) == [m \in DOMAIN tab \ {mount_point} |-> tab[m]]

\* The mount tables of the model.
MountTables ==
  {NoMounts, Mounted(NoMounts, "/system", SystemVolume),
   Mounted(NoMounts, "/system/missing", SystemVolume),
   Mounted(Mounted(NoMounts, "/system", SystemVolume), "/system/missing", SystemVolume)}

\* The label selabel_lookup finds for a path: none without a handle or an entry.
Labels == {"", "u:object_r:system_file:s0"}

\* mkdir(mount_point, 0755) under setfscreatecon(secontext); st is [fs, log, ui].
MountMkdir(st, mount_point, label, refused) ==
  IF "mkdir" \in refused \/ st.fs[mount_point].type # "none"
    THEN Sys(st, mount_point, "mkdir", "failed")
  ELSE [Sys(st, mount_point, "mkdir", "ok") EXCEPT
          !.fs[mount_point] =
             [Node("dir", NoCaps, "") EXCEPT
                !.mode = 493,
                !.selabel = IF label = "" THEN @ ELSE label]]

\* mount(2): the entry of the log, and the table after the call. The mount
\* fails when the OS refuses it, when the mount point is not a directory and
\* when the device is mounted there already.
OsMount(st, tab, location, mount_point, fs_type, flags, options, mountOk) ==
  LET ok == /\ mountOk
            /\ is_dir(st.fs, mount_point)
            /\ ~(mount_point \in DOMAIN tab /\ tab[mount_point].device = location)
      entry == [path |-> mount_point, attr |-> "", sys |-> "mount",
                res |-> IF ok THEN "ok" ELSE "failed", device |-> location,
                type |-> fs_type, flags |-> flags, options |-> options]
  IN  [ok |-> ok,
       st |-> [st EXCEPT !.log = Append(st.log, entry)],
       tab |-> IF ok THEN Mounted(tab, mount_point,
                                  Volume(location, fs_type, flags, options))
               ELSE tab]

MountArgs ==
  {<<"ext4", "EMMC", "/dev/block/system", m>> : m \in {"/system", "/system/missing", ""}}
    \cup {<<"ext4", "EMMC", "/dev/block/system", "/system/missing", o>> :
            o \in {"discard", "dev,atime"}}
    \cup {<<"", "EMMC", "/dev/block/system", "/system">>,
          <<"ext4", "", "/dev/block/system", "/system">>,
          <<"ext4", "EMMC", "", "/system">>,
          <<"ext4", "EMMC", "/dev/block/system">>}

\* Variant: the mount point is returned whether or not the mount succeeded.
MountReturnAlways(ok, mount_point) == StringValue(mount_point)

\* What mount returns after the mount call of the OS.
MountReturn(ok, mount_point) ==
  IF ok THEN StringValue(mount_point) ELSE StringValue("")

\* mount(fs_type, partition_type, location, mount_point[, mount_options])
MountFn(argv, evalOk, label, refused, mountOk) ==
  /\ pc = "idle"
  /\ Begin([fn |-> "mount", args |-> argv])
  /\ pc' = "idle"
  /\ oplog' = <<>>
  /\ \E r \in {LET st == [fs |-> fs, log |-> <<>>, ui |-> <<>>]
                  mount_options == IF Len(argv) = 5 THEN argv[5] ELSE ""
                  d == MountMkdir(st, argv[4], label, refused)
                  m == OsMount(d, mounts, argv[3], argv[4], argv[1], MountFlags,
                               mount_options, mountOk)
              IN  IF (Len(argv) # 4 /\ Len(argv) # 5) \/ ~evalOk
                    THEN [st |-> st, tab |-> mounts,
                          ret |-> ErrorAbort(kArgsParsingFailure)]
                  ELSE IF argv[1] = "" \/ argv[2] = "" \/ argv[3] = "" \/ argv[4] = ""
                    THEN [st |-> st, tab |-> mounts,
                          ret |-> ErrorAbort(kArgsParsingFailure)]
                  ELSE IF ~m.ok
                    THEN [st |-> [m.st EXCEPT !.ui = Append(@, "mount: Failed to mount")],
                          tab |-> m.tab, ret |-> MountReturn(FALSE, argv[4])]
                  ELSE [st |-> m.st, tab |-> m.tab, ret |-> MountReturn(TRUE, argv[4])]} :
       /\ fs' = r.st.fs
       /\ syslog' = r.st.log
       /\ ui' = r.st.ui
       /\ mounts' = r.tab
       /\ ret' = r.ret
  /\ fs0' = fs
  /\ UNCHANGED <<disk, boot, powerctl, quiescent, lastSet, denied, bad,
                 max_warnings, stdout, last_parsed, formatVars, is_retry, volumes>>

\* Variant: the library scans the OS table only while its own table is empty.
scan_mounted_volumesOnce(os, cache) == IF cache = NoMounts THEN os ELSE cache

\* scan_mounted_volumes(): the library's table becomes the table of the OS,
\* whatever an earlier scan left in it.
scan_mounted_volumes(os, cache) == os

\* find_mounted_volume_by_mount_point(mount_point) != nullptr
find_mounted_volume_by_mount_point(tab, mount_point) == mount_point \in DOMAIN tab

MountPointArgs == {<<"/system">>, <<"/system/missing">>, <<"">>, <<>>}

\* is_mounted(mount_point)
IsMountedFn(argv, evalOk) ==
  /\ pc = "idle"
  /\ Begin([fn |-> "is_mounted", args |-> argv])
  /\ pc' = "idle"
  /\ oplog' = <<>>
  /\ syslog' = <<>>
  /\ ui' = <<>>
  /\ IF Len(argv) # 1 \/ ~evalOk
       THEN ret' = ErrorAbort(kArgsParsingFailure) /\ UNCHANGED volumes
     ELSE IF argv[1] = ""
       THEN ret' = ErrorAbort(kArgsParsingFailure) /\ UNCHANGED volumes
     ELSE \E scanned \in {scan_mounted_volumes(mounts, volumes)} :
            /\ volumes' = scanned
            /\ ret' = IF find_mounted_volume_by_mount_point(scanned, argv[1])
                        THEN StringValue(argv[1])
                      ELSE StringValue("")
  /\ fs0' = fs
  /\ UNCHANGED <<disk, boot, powerctl, quiescent, lastSet, fs, denied, bad,
                 max_warnings, stdout, last_parsed, formatVars, is_retry, mounts>>

\* Variant: an unmount that the OS refuses returns the empty string.
UnmountReturnChecked(ret_code, mount_point) ==
  IF ret_code = 0 THEN StringValue(mount_point) ELSE StringValue("")

\* What unmount returns after unmount_mounted_volume returned ret_code.
UnmountReturn(ret_code, mount_point) == StringValue(mount_point)

\* unmount(mount_point); ret_code is what umount(2) returns for a mounted volume.
UnmountFn(argv, evalOk, ret_code) ==
  /\ pc = "idle"
  /\ Begin([fn |-> "unmount", args |-> argv])
  /\ pc' = "idle"
  /\ oplog' = <<>>
  /\ IF Len(argv) # 1 \/ ~evalOk \/ argv[1] = ""
       THEN /\ ret' = ErrorAbort(kArgsParsingFailure)
            /\ syslog' = <<>>
            /\ ui' = <<>>
            /\ UNCHANGED <<mounts, volumes>>
     ELSE \E scanned \in {scan_mounted_volumes(mounts, volumes)} :
            IF ~find_mounted_volume_by_mount_point(scanned, argv[1])
              THEN /\ ui' = <<"Failed to unmount: No such volume">>
                   /\ ret' = NullValue
                   /\ syslog' = <<>>
                   /\ volumes' = scanned
                   /\ UNCHANGED mounts
            ELSE /\ syslog' = <<[path |-> argv[1], attr |-> "", sys |-> "umount",
                                 res |-> IF ret_code = 0 THEN "ok" ELSE "failed"]>>
                 /\ ui' = IF ret_code # 0 THEN <<"Failed to unmount">> ELSE <<>>
                 /\ mounts' = IF ret_code = 0 THEN Unmounted(mounts, argv[1]) ELSE mounts
                 /\ volumes' = IF ret_code = 0 THEN Unmounted(scanned, argv[1])
                               ELSE scanned
                 /\ ret' = UnmountReturn(ret_code, argv[1])
  /\ fs0' = fs
  /\ UNCHANGED <<disk, boot, powerctl, quiescent, lastSet, fs, denied, bad,
                 max_warnings, stdout, last_parsed, formatVars, is_retry>>

\* A program the script runs mounts or unmounts a volume; the mounts library
\* is not told.
OtherMount(tab) ==
  /\ pc = "idle"
  /\ tab # mounts
  /\ \A m \in DOMAIN tab : is_dir(fs, m)
  /\ mounts' = tab
  /\ UNCHANGED <<pc, call, ret, stageVars, metaVars, formatVars, is_retry, volumes>>

InitMount ==
  /\ pc = "idle"
  /\ call = NoCall
  /\ ret = NoRet
  /\ disk \in {r \in InitRecords : CStr(r.command) = "" /\ CStr(r.stage) = ""}
  /\ boot = NoBoot
  /\ powerctl = ""
  /\ quiescent = FALSE
  /\ oplog = <<>>
  /\ before = disk
  /\ interrupted = ""
  /\ retried = ""
  /\ lastSet = [set |-> FALSE, tok |-> ""]
  /\ fs = InitFs(TRUE)
  /\ fs0 = fs
  /\ denied = {}
  /\ syslog = <<>>
  /\ bad = 0
  /\ ui = <<>>
  /\ max_warnings = MaxWarnings
  /\ stdout = <<>>
  /\ last_parsed = ZeroParsed
  /\ execlog = <<>>
  /\ is_retry = FALSE
  /\ mounts \in {NoMounts, Mounted(NoMounts, "/system", SystemVolume)}
  /\ volumes = NoMounts

\* The script calls mount, is_mounted and unmount in any order, and runs
\* programs that mount and unmount between the calls.
NextMount ==
  \/ \E argv \in MountArgs, evalOk \in BOOLEAN, label \in Labels,
        refused \in {{}, {"mkdir"}}, mountOk \in BOOLEAN :
       MountFn(argv, evalOk, label, refused, mountOk)
  \/ \E argv \in MountPointArgs, evalOk \in BOOLEAN : IsMountedFn(argv, evalOk)
  \/ \E argv \in MountPointArgs, evalOk \in BOOLEAN, ret_code \in {0, -1} :
       UnmountFn(argv, evalOk, ret_code)
  \/ \E tab \in MountTables : OtherMount(tab)

SpecMount == InitMount /\ [][NextMount]_vars

----------------------------------------------------------------------------
(* delete and delete_recursive, and a script that makes one call of any    *)
(* function of the model.                                                  *)

\* unlink(path) == 0; st is [fs, log, bad].
Unlink(st, path, refused) ==
  IF "unlink" \in refused \/ path \notin DOMAIN st.fs
       \/ st.fs[path].type \in {"none", "dir"}
    THEN [ok |-> FALSE, st |-> Sys(st, path, "unlink", "failed")]
  ELSE [ok |-> TRUE, st |-> [Sys(st, path, "unlink", "ok") EXCEPT !.fs[path] = NoNode]]

\* dirUnlinkHierarchy(path) == 0: the path and everything below it is removed.
dirUnlinkHierarchy(st, path, refused) ==
  IF "unlink" \in refused \/ path \notin DOMAIN st.fs \/ st.fs[path].type = "none"
    THEN [ok |-> FALSE, st |-> Sys(st, path, "dirUnlinkHierarchy", "failed")]
  ELSE [ok |-> TRUE,
        st |-> [Sys(st, path, "dirUnlinkHierarchy", "ok") EXCEPT
                  !.fs = [p \in DOMAIN st.fs |->
                            IF p = path \/ Inside(path, p) THEN NoNode ELSE st.fs[p]]]]

\* Variant: the loop ends at the first path that could not be deleted.
RECURSIVE DeleteLoopStopping(_, _, _, _, _, _)
DeleteLoopStopping(st, recursive, paths, i, success, refused) ==
  IF i > Len(paths) THEN [st |-> st, success |-> success]
  ELSE LET r == IF recursive THEN dirUnlinkHierarchy(st, paths[i], refused)
                ELSE Unlink(st, paths[i], refused)
       IN  IF ~r.ok THEN [st |-> r.st, success |-> success]
           ELSE DeleteLoopStopping(r.st, recursive, paths, i + 1, success + 1, refused)

\* The loop of DeleteFn over paths[i..]: [st, success].
RECURSIVE DeleteLoop(_, _, _, _, _, _)
DeleteLoop(st, recursive, paths, i, success, refused) ==
  IF i > Len(paths) THEN [st |-> st, success |-> success]
  ELSE LET r == IF recursive THEN dirUnlinkHierarchy(st, paths[i], refused)
                ELSE Unlink(st, paths[i], refused)
       IN  DeleteLoop(r.st, recursive, paths, i + 1,
                      IF r.ok THEN success + 1 ELSE success, refused)

DeleteArgs ==
  {<<>>, <<"/system/bin/sh">>, <<"/system/bin">>, <<"/system/bin/sh", "/system/missing">>,
   <<"/system/bin", "/system/missing">>, <<"/system/bin", "/system/vendor">>,
   <<"/system/missing", "/system/bin">>}

\* delete([filename, ...]) and delete_recursive([dirname, ...])
DeleteFn(name, argv, evalOk, refused) ==
  /\ pc = "idle"
  /\ Begin([fn |-> name, args |-> argv])
  /\ pc' = "idle"
  /\ oplog' = <<>>
  /\ \E r \in {LET st == [fs |-> fs, log |-> <<>>, bad |-> 0]
                  d == DeleteLoop(st, name = "delete_recursive", argv, 1, 0, refused)
              IN  IF ~evalOk THEN [st |-> st, ret |-> NullValue]
                  ELSE [st |-> d.st, ret |-> StringValue(to_string(d.success))]} :
       /\ fs' = r.st.fs
       /\ syslog' = r.st.log
       /\ ret' = r.ret
  /\ fs0' = fs
  /\ UNCHANGED <<disk, boot, powerctl, quiescent, lastSet, denied, bad, ui,
                 max_warnings, stdout, last_parsed, formatVars, sysVars>>

InitReturn ==
  /\ pc = "idle"
  /\ call = NoCall
  /\ ret = NoRet
  /\ disk \in {r \in InitRecords : CStr(r.stage) = ""}
  /\ boot = NoBoot
  /\ powerctl = ""
  /\ quiescent = FALSE
  /\ oplog = <<>>
  /\ before = disk
  /\ interrupted = ""
  /\ retried = ""
  /\ lastSet = [set |-> FALSE, tok |-> ""]
  /\ fs = InitFs(TRUE)
  /\ fs0 = fs
  /\ denied = {}
  /\ syslog = <<>>
  /\ bad = 0
  /\ ui = <<>>
  /\ max_warnings = MaxWarnings
  /\ stdout = <<>>
  /\ last_parsed = ZeroParsed
  /\ execlog = <<>>
  /\ is_retry = FALSE
  /\ mounts = Mounted(NoMounts, "/system", SystemVolume)
  /\ volumes = NoMounts

NextReturn ==
  \/ NextCall
  \/ NextFormat
  \/ /\ call = NoCall
     /\ \E argv \in MountArgs, evalOk \in BOOLEAN, label \in Labels,
           refused \in {{}, {"mkdir"}}, mountOk \in BOOLEAN :
          MountFn(argv, evalOk, label, refused, mountOk)
  \/ /\ call = NoCall
     /\ \E argv \in MountPointArgs, evalOk \in BOOLEAN : IsMountedFn(argv, evalOk)
  \/ /\ call = NoCall
     /\ \E argv \in MountPointArgs, evalOk \in BOOLEAN, ret_code \in {0, -1} :
          UnmountFn(argv, evalOk, ret_code)
  \/ /\ call = NoCall
     /\ \E name \in {"delete", "delete_recursive"}, argv \in DeleteArgs,
           evalOk \in BOOLEAN, refused \in {{}, {"unlink"}} :
          DeleteFn(name, argv, evalOk, refused)

SpecReturn == InitReturn /\ [][NextReturn]_vars

----------------------------------------------------------------------------
(* A script that calls rename any number of times.                         *)

InitRename ==
  /\ pc = "idle"
  /\ call = NoCall
  /\ ret = NoRet
  /\ disk \in {r \in InitRecords : CStr(r.command) = "" /\ CStr(r.stage) = ""}
  /\ boot = NoBoot
  /\ powerctl = ""
  /\ quiescent = FALSE
  /\ oplog = <<>>
  /\ before = disk
  /\ interrupted = ""
  /\ retried = ""
  /\ lastSet = [set |-> FALSE, tok |-> ""]
  /\ fs = InitFs(TRUE)
  /\ fs0 = fs
  /\ denied = {}
  /\ syslog = <<>>
  /\ bad = 0
  /\ ui = <<>>
  /\ max_warnings = MaxWarnings
  /\ stdout = <<>>
  /\ last_parsed = ZeroParsed
  /\ execlog = <<>>
  /\ is_retry = FALSE
  /\ mounts = NoMounts
  /\ volumes = NoMounts

\* The renames of the script: of a file that exists, of one that does not, and
\* of the file where an earlier rename put it.
RenameScriptArgs ==
  {<<src, dst>> : src \in {"/system/bin/sh", "/system/missing/f", CacheTemp, ""},
                  dst \in {"/system/missing/f", "/system/missing", "/system/bin/sh", ""}}
    \cup {<<"/system/bin/sh">>}

NextRename ==
  \E argv \in RenameScriptArgs, evalOk \in BOOLEAN, refused \in RefusedSets :
    RenameFn(argv, evalOk, refused)

SpecRename == InitRename /\ [][NextRename]_vars

\* The script deletes files and trees one call after the other.
InitDelete == InitRename

NextDelete ==
  \E name \in {"delete", "delete_recursive"}, argv \in DeleteArgs,
     evalOk \in BOOLEAN, refused \in {{}, {"unlink"}} :
    DeleteFn(name, argv, evalOk, refused)

SpecDelete == InitDelete /\ [][NextDelete]_vars

----------------------------------------------------------------------------
(* package_extract_file. The package holds one entry; io holds the calls   *)
(* that fail during the call.                                              *)

kPackageExtractFileFailure == "kPackageExtractFileFailure"

\* new Value(VAL_BLOB, buffer)
BlobValue(buffer) == [type |-> "VAL_BLOB", data |-> buffer, cause |-> kNoCause]

\* The entries of the update package and their contents.
PackageEntries == [e \in {"boot.img"} |-> "sha_boot"]

\* FindEntry(za, zip_path, &entry) == 0
FindEntry(zip_path) == zip_path \in DOMAIN PackageEntries

\* open(dest_path, O_WRONLY | O_CREAT | O_TRUNC, S_IRUSR | S_IWUSR): [ok, st].
OpenTrunc(st, dest_path, io) ==
  IF "open" \in io \/ st.fs[dest_path].type \in {"dir", "lnk"}
    THEN [ok |-> FALSE, st |-> Sys(st, dest_path, "open", "failed")]
  ELSE [ok |-> TRUE,
        st |-> [Sys(st, dest_path, "open", "ok") EXCEPT
                  !.fs[dest_path] =
                     IF st.fs[dest_path].type = "none" THEN Node("reg", NoCaps, "")
                     ELSE [st.fs[dest_path] EXCEPT !.data = ""]]]

\* ExtractEntryToFile, fsync or close on the open file: [ok, st].
FileCall(st, dest_path, sys, io, data) ==
  IF sys \in io THEN [ok |-> FALSE, st |-> Sys(st, dest_path, sys, "failed")]
  ELSE [ok |-> TRUE,
        st |-> [Sys(st, dest_path, sys, "ok") EXCEPT !.fs[dest_path].data = data]]

\* Variant: the file is closed and reported as soon as the extraction failed.
ExtractToFileStopping(st, zip_path, dest_path, io) ==
  LET x == FileCall(st, dest_path, "extract", io, PackageEntries[zip_path])
      s == FileCall(x.st, dest_path, "fsync", io, x.st.fs[dest_path].data)
      c == FileCall(s.st, dest_path, "close", io, s.st.fs[dest_path].data)
  IN  IF ~x.ok THEN [st |-> x.st, success |-> FALSE]
      ELSE [st |-> c.st, success |-> x.ok /\ s.ok /\ c.ok]

\* ExtractEntryToFile, ota_fsync and ota_close of the two-argument form, each
\* made whatever the one before returned.
ExtractToFile(st, zip_path, dest_path, io) ==
  LET x == FileCall(st, dest_path, "extract", io, PackageEntries[zip_path])
      s == FileCall(x.st, dest_path, "fsync", io, x.st.fs[dest_path].data)
      c == FileCall(s.st, dest_path, "close", io, s.st.fs[dest_path].data)
  IN  [st |-> c.st, success |-> x.ok /\ s.ok /\ c.ok]

ExtractArgs ==
  {<<z, d>> : z \in {"boot.img", "missing.img"},
              d \in {"/system/bin/sh", "/system/missing", "/system/bin"}}
    \cup {<<"boot.img">>, <<"missing.img">>, <<>>, <<"boot.img", "/system/bin/sh", "x">>}

IoFailures == SUBSET {"open", "extract", "fsync", "close"}

\* package_extract_file(package_file[, dest_file])
PackageExtractFileFn(argv, evalOk, io) ==
  /\ pc = "idle"
  /\ Begin([fn |-> "package_extract_file", args |-> argv])
  /\ pc' = "idle"
  /\ oplog' = <<>>
  /\ \E r \in {LET st == [fs |-> fs, log |-> <<>>, bad |-> 0]
                  o == OpenTrunc(st, argv[2], io)
                  x == ExtractToFile(o.st, argv[1], argv[2], io)
              IN  IF Len(argv) < 1 \/ Len(argv) > 2 \/ ~evalOk
                    THEN [st |-> st, ret |-> ErrorAbort(kArgsParsingFailure)]
                  ELSE IF Len(argv) = 2
                    THEN IF ~FindEntry(argv[1]) THEN [st |-> st, ret |-> StringValue("")]
                         ELSE IF ~o.ok THEN [st |-> o.st, ret |-> StringValue("")]
                         ELSE [st |-> x.st,
                               ret |-> StringValue(IF x.success THEN "t" ELSE "")]
                  ELSE IF ~FindEntry(argv[1])
                    THEN [st |-> st, ret |-> ErrorAbort(kPackageExtractFileFailure)]
                  ELSE IF "extract" \in io
                    THEN [st |-> Sys(st, argv[1], "extract", "failed"),
                          ret |-> ErrorAbort(kPackageExtractFileFailure)]
                  ELSE [st |-> Sys(st, argv[1], "extract", "ok"),
                        ret |-> BlobValue(PackageEntries[argv[1]])]} :
       /\ fs' = r.st.fs
       /\ syslog' = r.st.log
       /\ ret' = r.ret
  /\ fs0' = fs
  /\ UNCHANGED <<disk, boot, powerctl, quiescent, lastSet, denied, bad, ui,
                 max_warnings, stdout, last_parsed, formatVars, sysVars>>

\* The script extracts entries one after the other.
NextExtract ==
  \E argv \in ExtractArgs, evalOk \in BOOLEAN, io \in IoFailures :
    PackageExtractFileFn(argv, evalOk, io)

InitExtract == InitRename

SpecExtract == InitExtract /\ [][NextExtract]_vars

----------------------------------------------------------------------------
(* Claims about the staged reboot protocol, checked under SpecStage.       *)

\* What the stage field can hold of a token: its first StageSize-1 characters.
Truncated(tok) == SubSeq(tok, 1, Min(Len(tok), StageSize - 1))

\* The handler returned normally from a call whose arguments were accepted.
Returned(fn) ==
  /\ call.fn = fn
  /\ pc = "idle"
  /\ interrupted = ""
  /\ oplog # <<>>

\* The record a completed, uninterrupted call c produces from record r.
Completed(c, r) ==
  IF c.fn = "set_stage"
    THEN [r EXCEPT !.stage = Strlcpy(r.stage, c.args[2], StageSize)]
    ELSE [r EXCEPT !.command = Memset0(r.command)]

\* C1: after a successful set_stage(record, token), get_stage(record) returns
\* the token when it has at most 31 characters and its first 31 characters when
\* it is longer; an over-long token is stored truncated and the call succeeds;
\* get_stage returns the truncated token of the most recent successful set_stage.
C1_StageRoundTrip ==
  /\ (Returned("get_stage") /\ oplog = <<"read_ok">> /\ lastSet.set)
       => /\ ret = StringValue(Truncated(lastSet.tok))
          /\ (Len(lastSet.tok) <= StageSize - 1 => ret.data = lastSet.tok)
  /\ (Returned("set_stage") /\ "write_ok" \in Range(oplog))
       => /\ ret = StringValue(call.args[1])
          /\ CStr(disk.stage) = Truncated(call.args[2])

C1_Witness ==
  /\ Returned("get_stage")
  /\ oplog = <<"read_ok">>
  /\ lastSet.set
  /\ Len(lastSet.tok) > StageSize - 1
  /\ ret.data = SubSeq(Alphabet, 1, StageSize - 1)

\* C2: set_stage changes no field of the persisted record but stage, reboot_now
\* changes no field but command, and so after any interleaving of the two the
\* stage field still holds the most recently set token.
C2_FieldFrame ==
  /\ call.fn = "set_stage"
       => /\ disk = [before EXCEPT !.stage = disk.stage]
          /\ (boot # NoBoot => boot = [disk EXCEPT !.stage = boot.stage])
  /\ call.fn = "reboot_now"
       => /\ disk = [before EXCEPT !.command = disk.command]
          /\ (boot # NoBoot => boot = [disk EXCEPT !.command = boot.command])
  /\ lastSet.set => CStr(disk.stage) = Truncated(lastSet.tok)

C2_Witness ==
  /\ call.fn = "reboot_now"
  /\ "write_ok" \in Range(oplog)
  /\ disk.command # before.command
  /\ lastSet.set
  /\ lastSet.tok = "S2"
  /\ CStr(disk.stage) = "S2"

\* The step sequences a reboot_now call can have run through.
RebootNowRuns ==
  { <<"read_failed">>,
    <<"read_ok", "clear", "write_failed">>,
    <<"read_ok", "clear", "write_ok", "setprop", "abort">>,
    <<"read_ok", "clear", "write_ok", "setprop_failed", "abort">>,
    <<"read_ok", "clear", "write_ok", "setprop_failed", "rebooted">>,
    <<"read_ok", "clear", "write_ok", "setprop", "rebooted">> }

IsPrefix(a, b) == Len(a) <= Len(b) /\ SubSeq(b, 1, Len(a)) = a

\* C3: reboot_now reads the record, clears the command field, writes the record
\* and only then requests the reboot with "reboot,<target>[,quiescent]"; the
\* request is never made before the cleared record was written, and a handler
\* that returns after the request returns the kRebootFailure abort.
C3_RebootOrder ==
  call.fn = "reboot_now" =>
    /\ \E run \in RebootNowRuns : IsPrefix(oplog, run)
    /\ Range(oplog) \cap {"setprop", "setprop_failed"} # {}
         => /\ "write_ok" \in Range(oplog)
            /\ disk.command = CharArray("", CommandSize)
    /\ ("setprop" \in Range(oplog) /\ "rebooted" \notin Range(oplog)
          /\ interrupted = "")
         => powerctl = "reboot," \o call.args[2]
                         \o (IF quiescent THEN ",quiescent" ELSE "")
    /\ (Range(oplog) \cap {"setprop", "setprop_failed"} # {} /\ pc = "idle"
          /\ ret # NoRet)
         => ret = ErrorAbort(kRebootFailure)

C3_Witness ==
  /\ call.fn = "reboot_now"
  /\ oplog = <<"read_ok", "clear", "write_ok", "setprop", "abort">>
  /\ before.command # disk.command
  /\ powerctl = "reboot,recovery,quiescent"
  /\ ret = ErrorAbort(kRebootFailure)

\* C4: with the record write atomic, power loss anywhere inside set_stage or
\* reboot_now leaves the persisted record equal to the record before the call
\* or to the record the completed call produces, and re-invoking the same call
\* ends with the record one uninterrupted call produces.
C4_CrashSafe ==
  (call.fn \in {"set_stage", "reboot_now"} /\ Len(call.args) = 2) =>
    /\ disk \in {before, Completed(call, before)}
    /\ "write_ok" \in Range(oplog) => disk = Completed(call, before)

C4_Witness ==
  /\ Returned("set_stage")
  /\ retried = "ss_return"
  /\ ret = StringValue(MiscPath)
  /\ Len(call.args[2]) > StageSize - 1
  /\ disk # before
  /\ disk = Completed(call, before)

\* C5: set_stage returns the record path exactly when the read and the write
\* both succeed and the empty string, with no abort, when either fails; after a
\* failed read no write is attempted and the record is unchanged. get_stage
\* returns the stage field as stored, and the empty string when the read fails.
C5_StageResults ==
  /\ Returned("set_stage") =>
       /\ ret = IF oplog = <<"read_ok", "copy", "write_ok", "return">>
                  THEN StringValue(call.args[1])
                  ELSE StringValue("")
       /\ "read_failed" \in Range(oplog)
            => /\ oplog = <<"read_failed">>
               /\ (retried = "" => disk = before)
  /\ Returned("get_stage") =>
       /\ oplog = <<"read_ok">> => ret = StringValue(CStr(disk.stage))
       /\ oplog = <<"read_failed">> => ret = StringValue("")

C5_Witness ==
  /\ Returned("set_stage")
  /\ oplog = <<"read_failed">>
  /\ ret = StringValue("")
  /\ disk = before

----------------------------------------------------------------------------
(* Claims about metadata application, checked under SpecMeta.              *)

\* A metadata call that passed its argument checks and found its target.
MetaApplied ==
  /\ call.fn \in {"set_metadata", "set_metadata_recursive"}
  /\ ret.cause # kArgsParsingFailure
  /\ fs0[call.args[1]].type # "none"

\* The perm spec of the call.
CallSpec == last_parsed

Has(parsed, a) ==
  CASE a = "selabel" -> parsed.has_selabel
    [] a = "uid" -> parsed.has_uid
    [] a = "gid" -> parsed.has_gid
    [] a = "mode" -> parsed.has_mode
    [] a = "dmode" -> parsed.has_dmode
    [] a = "fmode" -> parsed.has_fmode
    [] OTHER -> parsed.has_capabilities

Applicable(a, type) ==
  CASE a = "selabel" -> TRUE
    [] a \in {"uid", "gid", "mode"} -> type # "lnk"
    [] a = "dmode" -> type = "dir"
    [] OTHER -> type = "reg"

\* The attributes the spec asks for on an entry of the type, in the fixed order.
Expected(parsed, type) ==
  SelectSeq(KnownKeys, LAMBDA a : Has(parsed, a) /\ Applicable(a, type))

LogOf(q) == SelectSeq(syslog, LAMBDA e : e.path = q)
LogAttrs(q) == [i \in 1..Len(LogOf(q)) |-> LogOf(q)[i].attr]
Failed(q) == {i \in 1..Len(LogOf(q)) : LogOf(q)[i].res = "failed"}

\* The value of the mode after the successful mode changes of the log.
RECURSIVE ModeAfter(_, _, _, _)
ModeAfter(parsed, log, i, mode) ==
  IF i > Len(log) THEN mode
  ELSE ModeAfter(parsed, log, i + 1,
         IF log[i].res # "ok" THEN mode
         ELSE CASE log[i].attr = "mode" -> parsed.mode
                [] log[i].attr = "dmode" -> parsed.dmode
                [] log[i].attr = "fmode" -> parsed.fmode
                [] OTHER -> mode)

\* C8: every entry the call reaches gets the attributes of the spec in the
\* fixed order selabel, uid, gid, mode, dmode, fmode, capabilities, with a
\* symbolic link getting the label only, dmode going to directories only, fmode
\* and capabilities to regular files only; an attribute the spec lacks, or the
\* type gates off, keeps the value it had before the call.
C8_OrderAndGating ==
  MetaApplied =>
    \A q \in {x \in Range(AllPaths) : fs0[x].type # "none"} :
      LET type == fs0[q].type
          reached == LogOf(q) # <<>> \/ (call.fn = "set_metadata" /\ q = call.args[1])
          tried(a) == \E i \in 1..Len(LogOf(q)) : LogOf(q)[i].attr = a
      IN  /\ reached => LogAttrs(q) = Expected(CallSpec, type)
          /\ ~reached => fs[q] = fs0[q]
          /\ ~tried("selabel") => fs[q].selabel = fs0[q].selabel
          /\ ~tried("uid") => fs[q].uid = fs0[q].uid
          /\ ~tried("gid") => fs[q].gid = fs0[q].gid
          /\ ~tried("capabilities") => fs[q].caps = fs0[q].caps
          /\ fs[q].mode = ModeAfter(CallSpec, LogOf(q), 1, fs0[q].mode)
          /\ fs[q].type = type

\* A symbolic link given a spec with a label, an owner and a mode: only the
\* label was set.
C8_Witness ==
  /\ MetaApplied
  /\ call.fn = "set_metadata"
  /\ call.args[1] = "/system/vendor"
  /\ CallSpec.has_selabel /\ CallSpec.has_uid /\ CallSpec.has_mode
  /\ LogAttrs("/system/vendor") = <<"selabel">>
  /\ fs["/system/vendor"].selabel = CallSpec.selabel
  /\ fs["/system/vendor"].selabel # fs0["/system/vendor"].selabel
  /\ fs["/system/vendor"].uid = fs0["/system/vendor"].uid

\* C9: in set_metadata a failing change does not keep the later ones from being
\* tried, the counter is the number of changes that failed on the target, and
\* the call aborts with kSetMetadataFailure when the counter is not zero and
\* returns the empty string when it is zero.
C9_IndependentFailures ==
  (MetaApplied /\ call.fn = "set_metadata") =>
    LET q == call.args[1]
        want == Expected(CallSpec, fs0[q].type)
    IN  /\ LogAttrs(q) = want
        /\ bad = Cardinality(Failed(q))
        /\ bad = Cardinality({a \in Range(want) : <<q, a>> \in denied})
        /\ \A i \in 1..Len(LogOf(q)) :
             LogOf(q)[i].res = "failed" <=> <<q, LogOf(q)[i].attr>> \in denied
        /\ bad # 0 => ret = ErrorAbort(kSetMetadataFailure)
        /\ bad = 0 => ret = StringValue("")

\* Two changes fail on a regular file, the first and a middle one: the ones
\* after each were tried and took effect, and the call aborts.
C9_Witness ==
  /\ MetaApplied
  /\ call.fn = "set_metadata"
  /\ call.args[1] = "/system/bin/sh"
  /\ denied = {<<"/system/bin/sh", "selabel">>, <<"/system/bin/sh", "gid">>}
  /\ LogAttrs("/system/bin/sh") =
       <<"selabel", "uid", "gid", "mode", "fmode", "capabilities">>
  /\ bad = 2
  /\ fs["/system/bin/sh"].uid = CallSpec.uid
  /\ fs["/system/bin/sh"].mode = CallSpec.fmode
  /\ fs["/system/bin/sh"].gid = fs0["/system/bin/sh"].gid
  /\ ret = ErrorAbort(kSetMetadataFailure)

\* The entries of the tree under the target of the call.
TreeOf == Range(PostOrder(fs0, call.args[1]))

\* C7: set_metadata_recursive tries the spec on every entry of the tree, a
\* failure on one entry keeping no other entry from its attributes, and the
\* call fails exactly when the failures over the tree, which total the sum of
\* the per-entry counts, are not zero.
C7_AllEntriesAttempted ==
  (MetaApplied /\ call.fn = "set_metadata_recursive" /\ bad # NoWalkError) =>
    LET K == Cardinality({d \in denied :
                 /\ d[1] \in TreeOf
                 /\ d[2] \in Range(Expected(CallSpec, fs0[d[1]].type))})
    IN  /\ \A q \in TreeOf : LogAttrs(q) = Expected(CallSpec, fs0[q].type)
        /\ bad = K
        /\ (ret = ErrorAbort(kSetMetadataFailure)) <=> (K # 0)

----------------------------------------------------------------------------
(* Claims about format, checked under SpecFormat.                          *)

\* A format call of a supported type that got as far as its size.
FormatSized ==
  /\ call.fn = "format"
  /\ Len(call.args) = 5
  /\ ret.cause # kArgsParsingFailure
  /\ call.args[1] \in {"ext4", "f2fs"}

\* The count the maker was given: what follows the location in its arguments.
MakerCount == SubSeq(execlog[1].argv, Len(execlog[1].argv), Len(execlog[1].argv))

----------------------------------------------------------------------------
(* Claims about the abort taxonomy, checked under SpecCall.                *)

FailedIn(kinds) == \E i \in 1..Len(syslog) : syslog[i].sys \in kinds /\ syslog[i].res = "failed"

\* The patch collaborator reported a failure to apply_patch.
PatchFailed == call.fn = "apply_patch" /\ FailedIn({"applypatch"})
\* rename could not create a parent of dst or could not rename.
RenameFailed == call.fn = "rename" /\ FailedIn({"mkdir", "rename"})
\* symlink could not remove, prepare or create one of its links.
SymlinkFailed == call.fn = "symlink" /\ FailedIn({"unlink", "mkdir", "symlink"})
\* A metadata call counted at least one failure.
MetadataFailed == call.fn \in {"set_metadata", "set_metadata_recursive"} /\ bad > 0
\* reboot_now returned after it failed to read or to write the record.
RecordIoFailed ==
  /\ call.fn = "reboot_now"
  /\ pc = "idle"
  /\ \E i \in 1..Len(oplog) : oplog[i] \in {"read_failed", "write_failed"}

\* C6 as stated: each of the five conditions ends the call with a named abort.
C6_AlwaysNamedAbort ==
  (PatchFailed \/ RenameFailed \/ SymlinkFailed \/ MetadataFailed \/ RecordIoFailed) =>
    (ret.type = "nullptr" /\ ret.cause # kNoCause)

\* C6: a parent-creation or rename failure in rename, a failed symlink and a
\* positive failure count in set_metadata end the call with the abort named
\* for them; a failed patch application in apply_patch and a record read or
\* write failure in reboot_now end it with the empty string and no abort.
C6_HardAborts ==
  /\ RenameFailed => (ret.type = "nullptr" /\ ret.cause = kFileRenameFailure)
  /\ SymlinkFailed => (ret.type = "nullptr" /\ ret.cause = kSymlinkFailure)
  /\ MetadataFailed => (ret.type = "nullptr" /\ ret.cause = kSetMetadataFailure)
  /\ PatchFailed => (ret.type = "VAL_STRING" /\ ret.data = "" /\ ret.cause = kNoCause)
  /\ RecordIoFailed => (ret.type = "VAL_STRING" /\ ret.data = "" /\ ret.cause = kNoCause)

\* apply_patch whose patch is for other content than the source has: the
\* collaborator fails, the file is as before, and the call returns "".
C6_Witness ==
  /\ PatchFailed
  /\ call.args[5] = "sha_other"
  /\ fs = fs0
  /\ ret.type = "VAL_STRING"
  /\ ret.data = ""

\* A format call that passed its argument checks.
FormatRan ==
  /\ call.fn = "format"
  /\ Len(call.args) = 5
  /\ ret.cause # kArgsParsingFailure

Makers == {"/sbin/mke2fs_static", "/sbin/mkfs.f2fs"}
Seeders == {"/sbin/e2fsdroid_static", "/sbin/sload.f2fs"}

\* C11: format runs the maker and then the seeding tool, the second only after
\* the first returned status zero; a non-zero status of either gives the empty
\* string, the location is returned only after both returned zero, and a type
\* other than ext4 and f2fs runs no tool.
C11_ToolSequence ==
  FormatRan =>
    LET n == Len(execlog)
        status(i) == WEXITSTATUS(execlog[i].status)
    IN  /\ n <= 2
        /\ n >= 1 => execlog[1].path \in Makers
        /\ n = 2 => /\ execlog[2].path \in Seeders
                    /\ (execlog[1].path = "/sbin/mke2fs_static")
                         <=> (execlog[2].path = "/sbin/e2fsdroid_static")
                    /\ status(1) = 0
        /\ (\E i \in 1..n : status(i) # 0) => ret = StringValue("")
        /\ (\E i \in 1..n : status(i) # 0) => status(n) # 0
        /\ ret = StringValue(call.args[3]) =>
             (n = 2 /\ status(1) = 0 /\ status(2) = 0)
        /\ (n = 2 /\ status(2) = 0) => ret = StringValue(call.args[3])
        /\ call.args[1] \notin {"ext4", "f2fs"} => n = 0

\* mke2fs exits with 1: e2fsdroid is not run and the result is empty.
C11_Witness ==
  /\ FormatRan
  /\ call.args[1] = "ext4"
  /\ Len(execlog) = 1
  /\ execlog[1].path = "/sbin/mke2fs_static"
  /\ execlog[1].status = Exited(1)
  /\ ret = StringValue("")

----------------------------------------------------------------------------
(* Claims about patching, checked under SpecCall.                          *)

\* The calls of the patch collaborator in the log.
PatchCalls == SelectSeq(syslog, LAMBDA e : e.sys = "applypatch")

\* C12: apply_patch returns "t" exactly when the collaborator reported zero and
\* the empty string exactly when it reported a failure; the collaborator is
\* called at most once, and only with an even argument count of at least 6, a
\* target size that parses and every pair a string and a blob.
C12_PatchResult ==
  call.fn = "apply_patch" =>
    /\ Len(PatchCalls) <= 1
    /\ ret = StringValue("t") <=> (PatchCalls # <<>> /\ PatchCalls[1].res = "ok")
    /\ ret = StringValue("") <=> (PatchCalls # <<>> /\ PatchCalls[1].res = "failed")
    /\ PatchCalls # <<>> =>
         /\ Len(call.args) >= 6
         /\ Len(call.args) % 2 = 0
         /\ ParseInt(call.args[4]).ok
         /\ CharAt(call.args[4], 1) # "-"
         /\ \A i \in 5..Len(call.args) :
              call.types[i] = (IF i % 2 = 1 THEN "VAL_STRING" ELSE "VAL_BLOB")

\* A patch for the content the source has is applied: "t", and the file has the
\* declared content.
C12_Witness ==
  /\ call.fn = "apply_patch"
  /\ call.args[2] = "-"
  /\ fs0["/system/bin/sh"].data = "sha_old"
  /\ fs["/system/bin/sh"].data = "sha_new"
  /\ Len(PatchCalls) = 1
  /\ ret = StringValue("t")

\* C13: when the target has the declared content before the call, apply_patch
\* with valid arguments returns "t" and leaves every file as it was.
C13_PatchIdempotent ==
  (/\ call.fn = "apply_patch"
   /\ PatchCalls # <<>>
   /\ LET tgt == IF call.args[2] = "-" THEN call.args[1] ELSE call.args[2]
      IN  fs0[tgt].type = "reg" /\ fs0[tgt].data = call.args[3])
    => (ret = StringValue("t") /\ fs = fs0)

\* A second apply_patch after the one that patched the file: the file had the
\* packaged content when the script started, has the declared content before
\* this call, and the call returns "t" without a change.
C13_Witness ==
  /\ call.fn = "apply_patch"
  /\ Len(call.args) = 6
  /\ call.args[2] = "-"
  /\ call.args[3] = "sha_new"
  /\ call.args[5] = "sha_old"
  /\ fs0["/system/bin/sh"].data = "sha_new"
  /\ PatchCalls # <<>>
  /\ ret = StringValue("t")
  /\ fs = fs0

\* The checksums of an apply_patch_check call.
CheckSums == {call.args[i] : i \in 2..Len(call.args)}

\* C14: apply_patch_check with arguments that evaluate returns "t" when the
\* content of the file or of the scratch copy is one of the checksums and the
\* empty string when neither is; no file is changed.
C14_PatchCheck ==
  (call.fn = "apply_patch_check" /\ ret.cause # kArgsParsingFailure) =>
    LET matches(p) == fs0[p].type = "reg" /\ fs0[p].data \in CheckSums
    IN  /\ ret = StringValue("t") <=> (matches(call.args[1]) \/ matches(CacheTemp))
        /\ ret = StringValue("") <=> ~(matches(call.args[1]) \/ matches(CacheTemp))
        /\ fs = fs0

\* The file is torn and the scratch copy has the packaged content: the check
\* succeeds through the scratch copy.
C14_Witness ==
  /\ call.fn = "apply_patch_check"
  /\ call.args = <<"/system/bin/sh", "sha_old">>
  /\ fs["/system/bin/sh"].data = "sha_torn"
  /\ fs[CacheTemp].data = "sha_old"
  /\ ret = StringValue("t")

\* The calls of the cache-size-check collaborator in the log.
SizeChecks == SelectSeq(syslog, LAMBDA e : e.sys = "CacheSizeCheck")

\* C15: apply_patch_space with a byte count that parses returns "t" on a retry
\* without calling the collaborator; otherwise it calls the collaborator once
\* and returns "t" when that reports zero and the empty string when not.
C15_PatchSpace ==
  (call.fn = "apply_patch_space" /\ ret.cause # kArgsParsingFailure) =>
    /\ is_retry => (ret = StringValue("t") /\ SizeChecks = <<>>)
    /\ ~is_retry =>
         /\ Len(SizeChecks) = 1
         /\ ret = StringValue("t") <=> SizeChecks[1].res = "ok"
         /\ ret = StringValue("") <=> SizeChecks[1].res = "failed"

\* On a retry the call succeeds with no cache size check.
C15_Witness ==
  /\ call.fn = "apply_patch_space"
  /\ call.args = <<"1024">>
  /\ is_retry
  /\ SizeChecks = <<>>
  /\ ret = StringValue("t")

----------------------------------------------------------------------------
(* Claims about argument errors, checked under SpecCall.                   *)

\* The call has returned.
CallReturned == call # NoCall /\ pc = "idle" /\ ret # NoRet

\* A value of a perm spec that its key cannot take.
BadPermValue(key, value) ==
  \/ key \in {"uid", "gid"} /\ ~ScanDecimal(value).ok
  \/ key \in {"mode", "dmode", "fmode", "capabilities"} /\ ~ScanInteger(value).ok
  \/ key = "selabel" /\ value = ""

\* The arguments of the call have a wrong count, an empty required string or a
\* number that does not parse.
ArgumentError ==
  LET n == Len(call.args)
  IN  CASE call.fn \in {"set_metadata", "set_metadata_recursive"} ->
             \/ n % 2 # 1
             \/ \E i \in 1..((n - 1) \div 2) :
                  BadPermValue(call.args[2 * i], call.args[2 * i + 1])
        [] call.fn = "rename" -> n # 2 \/ \E i \in 1..n : call.args[i] = ""
        [] call.fn = "symlink" -> n = 0
        [] call.fn = "apply_patch" -> n < 6 \/ n % 2 = 1 \/ ~ParseUint(call.args[4]).ok
        [] call.fn = "reboot_now" -> n # 2
        [] OTHER -> FALSE

\* The call created, changed or emitted nothing.
NoSideEffect ==
  /\ fs = fs0
  /\ disk = before
  /\ syslog = <<>>
  /\ ui = <<>>
  /\ execlog = <<>>
  /\ powerctl = ""
  /\ mounts = NoMounts

\* C16: a call with an argument error ends with the argument-parsing abort, and
\* a call that ends with the argument-parsing abort has had no side effect.
C16_ArgErrorsAbortFirst ==
  CallReturned =>
    /\ ArgumentError => ret = ErrorAbort(kArgsParsingFailure)
    /\ ret = ErrorAbort(kArgsParsingFailure) => NoSideEffect

----------------------------------------------------------------------------
(* Claims about mount, is_mounted and unmount, checked under SpecMount.    *)

\* The last call made the OS call sys, with result res.
OsCall(sys, res) == \E i \in 1..Len(syslog) : syslog[i].sys = sys /\ syslog[i].res = res

FailedMount == call.fn = "mount" /\ OsCall("mount", "failed")
UnknownUnmount ==
  /\ call.fn = "unmount"
  /\ ret # ErrorAbort(kArgsParsingFailure)
  /\ ~OsCall("umount", "ok") /\ ~OsCall("umount", "failed")
FailedUnmount == call.fn = "unmount" /\ OsCall("umount", "failed")

\* C17: a failed mount, an unmount of an unknown mount point and an unmount
\* that the OS refuses each print a diagnostic and return an empty or null
\* value, never a non-empty string and never an abort.
C17_SoftFailuresFalsy ==
  (CallReturned /\ (FailedMount \/ UnknownUnmount \/ FailedUnmount)) =>
    /\ ui # <<>>
    /\ ret \in {StringValue(""), NullValue}

\* A mount call that got past its argument checks.
MountRan ==
  CallReturned /\ call.fn = "mount" /\ ret # ErrorAbort(kArgsParsingFailure)

\* C19: a mount call that passes its argument checks tries mkdir of the mount
\* point and then mounts with exactly the flags no-atime, no-dev and
\* no-diratime, the options argument being passed on as mount data only; it
\* returns the mount point exactly when the mount of the OS succeeds, and
\* after a failed mount it has printed one diagnostic and returns "".
C19_Mount ==
  MountRan =>
    /\ Len(syslog) = 2
    /\ syslog[1].sys = "mkdir" /\ syslog[1].path = call.args[4]
    /\ syslog[2].sys = "mount" /\ syslog[2].path = call.args[4]
    /\ syslog[2].flags = {"MS_NOATIME", "MS_NODEV", "MS_NODIRATIME"}
    /\ syslog[2].options = (IF Len(call.args) = 5 THEN call.args[5] ELSE "")
    /\ (ret = StringValue(call.args[4])) <=> (syslog[2].res = "ok")
    /\ syslog[2].res = "ok" => ui = <<>>
    /\ syslog[2].res = "failed" => (Len(ui) = 1 /\ ret = StringValue(""))

C19_Witness ==
  /\ MountRan
  /\ call.args = <<"ext4", "EMMC", "/dev/block/system", "/system/missing", "dev,atime">>
  /\ syslog[1].res = "ok"
  /\ syslog[2].res = "ok"
  /\ ret = StringValue("/system/missing")
  /\ "/system/missing" \in DOMAIN mounts
  /\ mounts["/system/missing"].flags = MountFlags

\* A step in which the script calls fn and the call passes its argument checks;
\* a step that changes the mount table of the OS and nothing else is a step of
\* another program.
CallStep(fn) ==
  /\ call'.fn = fn
  /\ ret' # ErrorAbort(kArgsParsingFailure)
  /\ ~(UNCHANGED <<call, ret, ui, syslog, volumes>>)

\* What a step of is_mounted or unmount does with the mount table of the OS.
LooksUpFreshTable ==
  /\ (CallStep("is_mounted") /\ UNCHANGED mounts) =>
       /\ volumes' = mounts
       /\ ui' = <<>>
       /\ ret' = IF call'.args[1] \in DOMAIN mounts
                   THEN StringValue(call'.args[1])
                 ELSE StringValue("")
  /\ CallStep("unmount") =>
       IF call'.args[1] \in DOMAIN mounts
         THEN ret' = StringValue(call'.args[1])
       ELSE /\ volumes' = mounts
            /\ Len(ui') = 1
            /\ ret' = NullValue

\* C20: is_mounted and unmount look the mount point up in the mount table the
\* OS has at the call, whatever an earlier scan left in the library: is_mounted
\* returns the mount point when the table has it and "" without a diagnostic
\* when it has not; unmount of a mount point the table has not prints one
\* diagnostic and returns null with no error kind, and unmount of a mount
\* point the table has does not.
C20_Rescan == [][LooksUpFreshTable]_vars

\* is_mounted found a volume that was mounted after the first scan.
C20_Witness ==
  /\ CallReturned
  /\ call = [fn |-> "is_mounted", args |-> <<"/system/missing">>]
  /\ ret = StringValue("/system/missing")
  /\ DOMAIN volumes = {"/system", "/system/missing"}
  /\ volumes = mounts

----------------------------------------------------------------------------
(* Claims about the values returned to the script, checked under SpecReturn.*)

NamedAbort == ret.type = "nullptr" /\ ret.cause # kNoCause

\* The calls of the model that can end with a null result and no error kind.
NullWithoutKind ==
  \/ call.fn = "unmount" /\ ui = <<"Failed to unmount: No such volume">>
  \/ call.fn = "format" /\ Len(call.args) = 5 /\ call.args[1] \notin {"ext4", "f2fs"}
  \/ call.fn \in {"delete", "delete_recursive", "symlink", "apply_patch"}

\* The strings a call can return.
ReturnedStrings ==
  CASE call.fn = "mount" -> {"", call.args[4]}
    [] call.fn = "is_mounted" -> {"", call.args[1]}
    [] call.fn = "unmount" -> {call.args[1]}
    [] call.fn = "rename" -> {call.args[2]}
    [] call.fn = "format" -> {"", call.args[3]}
    [] call.fn \in {"delete", "delete_recursive"} -> {"0", "1", "2"}
    [] OTHER -> {"t", ""}

----------------------------------------------------------------------------
(* Claims about rename, checked under SpecRename.                          *)

\* Before the call the destination existed and the source did not.
AlreadyMovedBefore == Exists(fs0, call.args[2]) /\ ~Exists(fs0, call.args[1])

\* A rename call that got past its argument checks.
RenameRan ==
  CallReturned /\ call.fn = "rename" /\ ret # ErrorAbort(kArgsParsingFailure)

\* What a returned rename call has done, fs0 being the tree before the call.
RenameOutcome ==
  RenameRan =>
    /\ AlreadyMovedBefore =>
         /\ ret = StringValue(call.args[2])
         /\ fs = fs0
         /\ syslog = <<>>
    /\ (Exists(fs0, call.args[1]) /\ ~OsCall("mkdir", "failed")) =>
         OsCall("rename", "ok") \/ OsCall("rename", "failed")
    /\ (OsCall("rename", "failed") \/ OsCall("mkdir", "failed")) =>
         ret = ErrorAbort(kFileRenameFailure)

\* The same rename is called again right after it returned its destination,
\* and its arguments are evaluated again.
RenameAgain ==
  /\ RenameRan
  /\ call.args[1] # call.args[2]
  /\ ret = StringValue(call.args[2])
  /\ call' = call
  /\ ret' # ErrorAbort(kArgsParsingFailure)

\* C21: a rename whose destination exists and whose source does not returns
\* the destination, with no error, no OS call and no change of the tree; so a
\* rename to another path, called again right after it succeeded, succeeds
\* again and changes nothing. A rename whose source exists tries the rename
\* of the OS unless a parent of the destination could not be created, and
\* either failure ends with the file-rename abort.
C21_RenameRerun ==
  [][/\ RenameOutcome'
     /\ RenameAgain => (ret' = StringValue(call.args[2]) /\ fs' = fs)]_vars

\* A second rename found the file moved by the first.
C21_Witness ==
  /\ RenameRan
  /\ call.args = <<"/system/bin/sh", "/system/missing/f">>
  /\ fs0["/system/bin/sh"] = NoNode
  /\ fs0["/system/missing/f"].type = "reg"
  /\ ret = StringValue("/system/missing/f")
  /\ fs = fs0

----------------------------------------------------------------------------
(* Claims about capabilities, checked under SpecMeta.                      *)

\* The entries of the log of the call that are changes of capabilities.
CapEntries == SelectSeq(syslog, LAMBDA e : e.attr = "capabilities")

\* set_metadata on a regular file with a capabilities value in its spec.
CapsCall ==
  /\ MetaApplied
  /\ call.fn = "set_metadata"
  /\ fs0[call.args[1]].type = "reg"
  /\ CallSpec.has_capabilities

\* C22: with a zero value the attribute is removed, a removal that finds no
\* attribute is no failure, and a removal the OS refuses is one failure; with
\* a non-zero value v the attribute is set to the permitted words v mod 2^w and
\* v div 2^w (w the width of a word) with both inheritable words zero, so that
\* the two permitted words give v back.
C22_Capabilities ==
  CapsCall =>
    LET q == call.args[1]
        v == CallSpec.capabilities
        e == CapEntries[1]
        others == Cardinality({i \in 1..Len(syslog) :
                                 syslog[i].attr # "capabilities" /\ syslog[i].res = "failed"})
    IN  /\ Len(CapEntries) = 1
        /\ e.path = q
        /\ bad = others + (IF e.res = "failed" THEN 1 ELSE 0)
        /\ e.res = "failed" => fs[q].caps = fs0[q].caps
        /\ v = 0 =>
             /\ e.sys = "removexattr"
             /\ e.res = "ENODATA" => ~fs0[q].caps.present
             /\ e.res # "failed" => ~fs[q].caps.present
        /\ v # 0 =>
             /\ e.sys = "setxattr"
             /\ e.res \in {"ok", "failed"}
             /\ e.res = "ok" =>
                  /\ fs[q].caps.present
                  /\ fs[q].caps.permitted[1] = v % (2 ^ WordBits)
                  /\ fs[q].caps.permitted[2] = v \div (2 ^ WordBits)
                  /\ fs[q].caps.inheritable = <<0, 0>>
                  /\ fs[q].caps.permitted[1] + fs[q].caps.permitted[2] * (2 ^ WordBits) = v

\* A value with bits in both words was stored.
C22_Witness ==
  /\ CapsCall
  /\ call.args = <<"/system/bin/sh", "capabilities", "0x3fffffff">>
  /\ ret = StringValue("")
  /\ fs["/system/bin/sh"].caps.permitted[1] > 0
  /\ fs["/system/bin/sh"].caps.permitted[2] > 0
  /\ fs["/system/bin/sh"].caps.permitted # fs0["/system/bin/sh"].caps.permitted

----------------------------------------------------------------------------
(* Claims about unknown keys, checked under SpecWarn.                      *)

\* The arguments of a metadata call without the pairs whose key is unknown.
RECURSIVE KnownOnly(_, _)
KnownOnly(args, i) ==
  IF i > Len(args) THEN <<>>
  ELSE (IF args[i] \in Range(KnownKeys) THEN <<args[i], args[i + 1]>> ELSE <<>>)
         \o KnownOnly(args, i + 2)

UnknownCount(args) ==
  Cardinality({i \in 2..Len(args) : i % 2 = 0 /\ args[i] \notin Range(KnownKeys)})

\* What one metadata call does with the unknown keys of its spec.
UnknownKeysIgnored ==
  /\ Len(stdout') <= 20
  /\ ret' = ErrorAbort(kArgsParsingFailure) => stdout' = stdout
  /\ ret' # ErrorAbort(kArgsParsingFailure) =>
       /\ Len(stdout') = Min(20, Len(stdout) + UnknownCount(call'.args))
       /\ last_parsed' =
            ParsePermArgs(<<call'.args[1]>> \o KnownOnly(call'.args, 2), 0).parsed
       /\ ret' = ErrorAbort(kSetMetadataFailure) => OsCall("lsetfilecon", "failed")'
       /\ ret' \in {ErrorAbort(kSetMetadataFailure), StringValue("")}

\* C23: over the metadata calls of one run at most 20 unknown-key warnings
\* are printed, one for each unknown key while fewer than 20 were printed and
\* none after that; the parsed spec of a call is the one its arguments give
\* with the unknown keys and their values left out, and the call fails only
\* when a change of an attribute fails.
C23_UnknownKeys == [][UnknownKeysIgnored]_vars

\* The twenty warnings are used up and a call with an unknown key went through.
C23_Witness ==
  /\ CallReturned
  /\ Len(stdout) = 20
  /\ max_warnings = 0
  /\ call.args = <<"/system/vendor", "bogus", "1", "bogus", "0644", "mode", "0644">>
  /\ last_parsed.has_mode /\ last_parsed.mode = 420
  /\ ret = StringValue("")

----------------------------------------------------------------------------
(* Claims about package_extract_file, checked under SpecExtract.           *)

\* A package_extract_file call that got past its argument checks.
ExtractRan ==
  /\ CallReturned
  /\ call.fn = "package_extract_file"
  /\ ret # ErrorAbort(kArgsParsingFailure)

\* The calls of the OS the last call made, in order.
SysOrder == [i \in 1..Len(syslog) |-> syslog[i].sys]

\* C24: with a destination, package_extract_file returns "t" or "" and never
\* aborts; it returns "t" exactly when extraction, fsync and close all
\* succeeded; once the destination is open it extracts, then syncs, then
\* closes, whatever the calls before returned; an entry that is not in the
\* package leaves the tree as it was. Without a destination it returns the
\* entry as a blob when the entry is found and extracted, ends with the
\* package-extract abort otherwise, and leaves the tree as it was.
C24_ExtractForms ==
  ExtractRan =>
    IF Len(call.args) = 2
      THEN /\ ret \in {StringValue("t"), StringValue("")}
           /\ (ret = StringValue("t")) <=>
                (OsCall("extract", "ok") /\ OsCall("fsync", "ok") /\ OsCall("close", "ok"))
           /\ ~FindEntry(call.args[1]) => (fs = fs0 /\ syslog = <<>>)
           /\ FindEntry(call.args[1]) =>
                \/ SysOrder = <<"open">> /\ syslog[1].res = "failed" /\ fs = fs0
                \/ SysOrder = <<"open", "extract", "fsync", "close">> /\ syslog[1].res = "ok"
      ELSE /\ fs = fs0
           /\ (FindEntry(call.args[1]) /\ OsCall("extract", "ok")) =>
                ret = BlobValue(PackageEntries[call.args[1]])
           /\ (~FindEntry(call.args[1]) \/ OsCall("extract", "failed")) =>
                ret = ErrorAbort(kPackageExtractFileFailure)
           /\ ~FindEntry(call.args[1]) => syslog = <<>>

\* The extraction failed; the file was synced and closed all the same, and the
\* call returned "".
C24_Witness ==
  /\ ExtractRan
  /\ call.args = <<"boot.img", "/system/bin/sh">>
  /\ SysOrder = <<"open", "extract", "fsync", "close">>
  /\ syslog[2].res = "failed" /\ syslog[3].res = "ok" /\ syslog[4].res = "ok"
  /\ ret = StringValue("")
  /\ fs["/system/bin/sh"].data = ""

----------------------------------------------------------------------------
(* Claims about delete and delete_recursive, checked under SpecDelete.     *)

\* A delete call whose arguments were evaluated.
DeleteRan ==
  CallReturned /\ call.fn \in {"delete", "delete_recursive"} /\ ret # NullValue

\* The paths the last call deleted.
Deleted == {i \in 1..Len(syslog) : syslog[i].res = "ok"}

\* C25: delete and delete_recursive try every path of the call in order,
\* whatever happened to the paths before it, return a string and no abort, and
\* the string is the decimal count of the paths that were deleted, a number
\* from 0 to the number of arguments; a deleted path is gone afterwards.
C25_DeleteCount ==
  DeleteRan =>
    /\ Len(syslog) = Len(call.args)
    /\ \A i \in 1..Len(syslog) : syslog[i].path = call.args[i]
    /\ ret.type = "VAL_STRING"
    /\ Cardinality(Deleted) <= Len(call.args)
    /\ ret.data = <<"0", "1", "2">>[Cardinality(Deleted) + 1]
    /\ \A i \in Deleted : fs[call.args[i]] = NoNode

\* Of two directories the first does not exist: the second was deleted all the
\* same and the count is 1.
C25_Witness ==
  /\ DeleteRan
  /\ call = [fn |-> "delete_recursive", args |-> <<"/system/missing", "/system/bin">>]
  /\ syslog[1].res = "failed"
  /\ syslog[2].res = "ok"
  /\ fs0["/system/bin"].type = "dir"
  /\ fs["/system/bin"] = NoNode
  /\ ret = StringValue("1")

----------------------------------------------------------------------------
(* Claims about the tree walk, checked under SpecMeta.                     *)

\* The entries of the tree of the call on which some change was tried or for
\* which the spec asks for none.
Visited(q) == LogOf(q) # <<>> \/ Expected(CallSpec, fs0[q].type) = <<>>

\* C26: set_metadata_recursive returns the empty string only when the walk
\* returned zero: it visited every entry of the tree and no change failed.
C26_WalkErrorFails ==
  (MetaApplied /\ call.fn = "set_metadata_recursive" /\ ret = StringValue("")) =>
    /\ bad = 0
    /\ \A i \in 1..Len(syslog) : syslog[i].res # "failed"
    /\ \A q \in Range(PostOrder(fs0, call.args[1])) : Visited(q)

----------------------------------------------------------------------------
(* Claims about children that do not exit, checked under SpecFormat.       *)

\* WIFEXITED(status): the child ended by exiting, not by a signal.
WIFEXITED(status) == status % 128 = 0

ExitedZero(status) == WIFEXITED(status) /\ WEXITSTATUS(status) = 0

\* C27: format returns the location only after both tools exited with status
\* zero; a tool that was killed by a signal makes the call return the empty
\* string, and no tool is run after it.
C27_SignalledToolFails ==
  FormatRan =>
    /\ ret = StringValue(call.args[3]) =>
         /\ Len(execlog) = 2
         /\ \A i \in 1..2 : ExitedZero(execlog[i].status)
    /\ \A i \in 1..Len(execlog) :
         ~WIFEXITED(execlog[i].status) => (ret = StringValue("") /\ Len(execlog) = i)

====
